---- MODULE Spec2Model ----
(***************************************************************************)
(* Gesture-driven simulation engine of the hand-tracking game               *)
(* (useHandTracking: src/unnamed/part_003, the variant with ammunition and  *)
(* supply drops) together with the controls of its view                     *)
(* (src/components/handtracking/HandTracking.tsx).                          *)
(*                                                                          *)
(* Units.  Lengths are in hundredths of a pixel (S per pixel), velocities   *)
(* in hundredths of a pixel per 60fps-frame, times in hundredths of a       *)
(* millisecond.  A frame is 16.67 ms = FRAME time units, so that            *)
(* dt = (time - lastTime) / 16.67 is an integer whenever frame times are    *)
(* multiples of FRAME apart, which is how the frame inputs are drawn.       *)
(* Math.hypot(dx, dy) < r is decided on squares, which is exact.            *)
(* legFrame (animation only) and all drawing are left out.                  *)
(***************************************************************************)
EXTENDS Integers, Sequences, FiniteSets, TLC

\* ---------------------------------------------------------------- constants
S == 100
FRAME == 1667
GRAVITY == 60
GROUND_OFFSET == 80
CHARACTER_WIDTH == 80
CHARACTER_HEIGHT == 120
BOMB_COOLDOWN == 50000
SCORE_TO_PASS_LEVEL == 10
MAX_BOMBS == 5
PINCH_START_DIST == 60
PINCH_STOP_DIST == 100
GRAB_MAGNET_RADIUS == 120
LEVEL_UP_DELAY == 250000
CanvasWidth == 1280
CanvasHeight == 720

\* ---------------------------------------------------------------- bounds
\* At most MaxTicks frames are delivered to the engine and at most MaxClicks
\* buttons are pressed.
MaxTicks == 3
MaxClicks == 1
\* the highest level whose wave is spawned where waves are examined by themselves
MaxLevel == 22
\* at most MaxSaves records are stored where the leaderboard is examined by itself
MaxSaves == 6

\* ---------------------------------------------------------------- helpers
Abs(n) == IF n < 0 THEN -n ELSE n
Max(a, b) == IF a > b THEN a ELSE b

\* Math.hypot(dx, dy) < r, for r > 0 (the two bound tests keep the squares small)
HypotLess(dx, dy, r) == Abs(dx) < r /\ Abs(dy) < r /\ dx * dx + dy * dy < r * r

groundY == (CanvasHeight - GROUND_OFFSET) * S
groundLine == groundY - (CHARACTER_HEIGHT * S) \div 2

NoPoint == <<>>

\* ---------------------------------------------------------------- gesture
\* A hand is the five tips the engine reads (landmarks 4, 8, 12, 16, 20), each
\* <<u, v>> with u = landmark.x * canvas.width and v = landmark.y * canvas.height
\* in whole pixels.  getPx mirrors the x axis.
getPx(lm) == <<(CanvasWidth - lm[1]) * S, lm[2] * S>>

\* Math.hypot(a - b) squared, in px^2 (tips lie on whole pixels)
TipDist2(a, b) ==
  LET dx == (a[1] - b[1]) \div S
      dy == (a[2] - b[2]) \div S
  IN dx * dx + dy * dy

NoPinchDist2 == 1000 * 1000
FiveFingerDist2 == 60 * 60

\* (mutant) the bomb gesture is recognised while a character is held
Gesture_FiveWhileHolding(allLandmarks, grabbed) ==
  IF Len(allLandmarks) = 0
  THEN [pinchPoint |-> NoPoint, pinchDist2 |-> NoPinchDist2, isFiveFingerPinch |-> FALSE]
  ELSE
    LET landmarks == allLandmarks[1]
        thumbTip == getPx(landmarks.thumb)
        indexTip == getPx(landmarks.index)
        middleTip == getPx(landmarks.middle)
        ringTip == getPx(landmarks.ring)
        pinkyTip == getPx(landmarks.pinky)
        distIndex == TipDist2(indexTip, thumbTip)
        distMiddle == TipDist2(middleTip, thumbTip)
        distRing == TipDist2(ringTip, thumbTip)
        distPinky == TipDist2(pinkyTip, thumbTip)
    IN IF distIndex < FiveFingerDist2 /\ distMiddle < FiveFingerDist2
          /\ distRing < FiveFingerDist2 /\ distPinky < FiveFingerDist2
       THEN [pinchPoint |-> thumbTip, pinchDist2 |-> NoPinchDist2, isFiveFingerPinch |-> TRUE]
       ELSE
         LET two == IF distIndex < distMiddle
                    THEN <<(thumbTip[1] + indexTip[1]) \div 2, (thumbTip[2] + indexTip[2]) \div 2>>
                    ELSE <<(thumbTip[1] + middleTip[1]) \div 2, (thumbTip[2] + middleTip[2]) \div 2>>
             three == <<(thumbTip[1] + indexTip[1] + middleTip[1]) \div 3,
                        (thumbTip[2] + indexTip[2] + middleTip[2]) \div 3>>
         IN [pinchPoint |-> IF distIndex < FiveFingerDist2 /\ distMiddle < FiveFingerDist2
                            THEN three ELSE two,
             pinchDist2 |-> IF distIndex < distMiddle THEN distIndex ELSE distMiddle,
             isFiveFingerPinch |-> FALSE]

\* (mutant) without a hand the distance is taken to be 0
Gesture_NearWhenAbsent(allLandmarks, grabbed) ==
  IF Len(allLandmarks) = 0
  THEN [pinchPoint |-> NoPoint, pinchDist2 |-> 0, isFiveFingerPinch |-> FALSE]
  ELSE
    LET landmarks == allLandmarks[1]
        thumbTip == getPx(landmarks.thumb)
        indexTip == getPx(landmarks.index)
        middleTip == getPx(landmarks.middle)
        ringTip == getPx(landmarks.ring)
        pinkyTip == getPx(landmarks.pinky)
        distIndex == TipDist2(indexTip, thumbTip)
        distMiddle == TipDist2(middleTip, thumbTip)
        distRing == TipDist2(ringTip, thumbTip)
        distPinky == TipDist2(pinkyTip, thumbTip)
    IN IF grabbed = -1 /\ distIndex < FiveFingerDist2 /\ distMiddle < FiveFingerDist2
          /\ distRing < FiveFingerDist2 /\ distPinky < FiveFingerDist2
       THEN [pinchPoint |-> thumbTip, pinchDist2 |-> NoPinchDist2, isFiveFingerPinch |-> TRUE]
       ELSE
         LET two == IF distIndex < distMiddle
                    THEN <<(thumbTip[1] + indexTip[1]) \div 2, (thumbTip[2] + indexTip[2]) \div 2>>
                    ELSE <<(thumbTip[1] + middleTip[1]) \div 2, (thumbTip[2] + middleTip[2]) \div 2>>
             three == <<(thumbTip[1] + indexTip[1] + middleTip[1]) \div 3,
                        (thumbTip[2] + indexTip[2] + middleTip[2]) \div 3>>
         IN [pinchPoint |-> IF distIndex < FiveFingerDist2 /\ distMiddle < FiveFingerDist2
                            THEN three ELSE two,
             pinchDist2 |-> IF distIndex < distMiddle THEN distIndex ELSE distMiddle,
             isFiveFingerPinch |-> FALSE]

\* Step 1 of updateAndDrawGame: pinchPoint, pinchDist (squared) and isFiveFingerPinch
Gesture(allLandmarks, grabbed) ==
  IF Len(allLandmarks) = 0
  THEN [pinchPoint |-> NoPoint, pinchDist2 |-> NoPinchDist2, isFiveFingerPinch |-> FALSE]
  ELSE
    LET landmarks == allLandmarks[1]
        thumbTip == getPx(landmarks.thumb)
        indexTip == getPx(landmarks.index)
        middleTip == getPx(landmarks.middle)
        ringTip == getPx(landmarks.ring)
        pinkyTip == getPx(landmarks.pinky)
        distIndex == TipDist2(indexTip, thumbTip)
        distMiddle == TipDist2(middleTip, thumbTip)
        distRing == TipDist2(ringTip, thumbTip)
        distPinky == TipDist2(pinkyTip, thumbTip)
    IN IF grabbed = -1 /\ distIndex < FiveFingerDist2 /\ distMiddle < FiveFingerDist2
          /\ distRing < FiveFingerDist2 /\ distPinky < FiveFingerDist2
       THEN [pinchPoint |-> thumbTip, pinchDist2 |-> NoPinchDist2, isFiveFingerPinch |-> TRUE]
       ELSE
         LET two == IF distIndex < distMiddle
                    THEN <<(thumbTip[1] + indexTip[1]) \div 2, (thumbTip[2] + indexTip[2]) \div 2>>
                    ELSE <<(thumbTip[1] + middleTip[1]) \div 2, (thumbTip[2] + middleTip[2]) \div 2>>
             three == <<(thumbTip[1] + indexTip[1] + middleTip[1]) \div 3,
                        (thumbTip[2] + indexTip[2] + middleTip[2]) \div 3>>
         IN [pinchPoint |-> IF distIndex < FiveFingerDist2 /\ distMiddle < FiveFingerDist2
                            THEN three ELSE two,
             pinchDist2 |-> IF distIndex < distMiddle THEN distIndex ELSE distMiddle,
             isFiveFingerPinch |-> FALSE]

\* (mutant) one threshold for both directions
Hysteresis_OneThreshold(pinching, pinchDist2, isFive) ==
  pinchDist2 < PINCH_START_DIST * PINCH_START_DIST /\ ~isFive

\* The two-threshold latch (hysteresis) on isPinching
Hysteresis(pinching, pinchDist2, isFive) ==
  IF pinching
  THEN IF pinchDist2 > PINCH_STOP_DIST * PINCH_STOP_DIST \/ isFive THEN FALSE ELSE pinching
  ELSE IF pinchDist2 < PINCH_START_DIST * PINCH_START_DIST /\ ~isFive THEN TRUE ELSE pinching

\* ---------------------------------------------------------------- randomness
\* Math.random() is an input: a random source names the value (in thousandths)
\* of the k-th draw of one call.  The sources are a choice of streams.
RandomSources == {"zero", "alt"}
Rand(src, k) ==
  CASE src = "zero" -> 0
    [] src = "half" -> 500
    [] src = "high" -> 999
    [] OTHER -> IF k % 2 = 0 THEN 750 ELSE 250

\* ---------------------------------------------------------------- spawn
\* floor(n ^ 1.3) = the largest k with k^10 <= n^13.  The powers pass 32 bits
\* from n = 6 on, so they are kept as sequences of digits in base 10000, least
\* digit first.
RECURSIVE BigTimes(_, _, _)
BigTimes(a, m, carry) ==
  IF a = <<>> THEN (IF carry = 0 THEN <<>> ELSE <<carry>>)
  ELSE LET v == Head(a) * m + carry
       IN <<v % 10000>> \o BigTimes(Tail(a), m, v \div 10000)

RECURSIVE IPow(_, _)
IPow(b, e) ==
  IF e = 0 THEN <<1>>
  ELSE CHOOSE r \in {BigTimes(p, b, 0) : p \in {IPow(b, e - 1)}} : TRUE

\* a <= b: fewer digits, or as many and the smaller one at the highest digit
\* in which they differ
BigLeq(a, b) ==
  \/ Len(a) < Len(b)
  \/ /\ Len(a) = Len(b)
     /\ \/ a = b
        \/ \E i \in 1..Len(a) : a[i] < b[i] /\ \A j \in i + 1..Len(a) : a[j] = b[j]

RECURSIVE FloorPow13(_, _)
FloorPow13(n, k) ==
  IF \E a \in {IPow(k + 1, 10)}, b \in {IPow(n, 13)} : BigLeq(a, b)
  THEN FloorPow13(n, k + 1) ELSE k

\* (mutant) the wave grows without the hard limit
SpawnCount_NoCap(lvl) ==
  2 + FloorPow13(lvl - 1, 0)

SpawnCount(lvl) ==
  LET count == 2 + FloorPow13(lvl - 1, 0)
  IN IF count > 25 THEN 25 ELSE count

\* one element of the wave: the i-th character (i from 0) with id firstId + i
SpawnOne(lvl, i, firstId, src) ==
  LET baseSpeed == 100 + lvl * 20
      randomFactor == 700 + (Rand(src, 4 * i) * 600) \div 1000
      speed == (baseSpeed * randomFactor) \div 1000
      finalSpeed == IF speed > 600 THEN 600 ELSE IF speed < 80 THEN 80 ELSE speed
      startX == (-100) * S - (Rand(src, 4 * i + 1) * 200 * S) \div 1000
                - i * (120 * S + (Rand(src, 4 * i + 2) * 100 * S) \div 1000)
  IN [id |-> firstId + i, x |-> startX, y |-> 0, vx |-> finalSpeed,
      originalSpeed |-> finalSpeed, vy |-> 0, state |-> "RUNNING", isDead |-> FALSE,
      isTricking |-> FALSE, hasTricked |-> FALSE, trickTimer |-> 0]

\* (mutant) every wave numbers its characters from 0
spawnCharacters_FromZero(lvl, firstId, src) ==
  [i \in 1..SpawnCount(lvl) |-> SpawnOne(lvl, i - 1, 0, src)]

spawnCharacters(lvl, firstId, src) ==
  [i \in 1..SpawnCount(lvl) |-> SpawnOne(lvl, i - 1, firstId, src)]

\* ---------------------------------------------------------------- session
\* A world w is the engine's mutable state while one handler runs:
\*   g       gameState.current
\*   cid, bid, did   charIdCounter, bombIdCounter, dropIdCounter
\*   timers  the due times of the pending setTimeout(nextLevel) callbacks
\*   acts    the ids of the characters that started a jump or a trick, in order
\*   loop    the next frame of the loop is requested
\*   trace   the values assigned to status by the handler, in order
\*   pts     the points added by addScore in the handler
\*   late    the points among them added while status was not PLAYING
\*   over    the points among them added while status was GAME_OVER
\*   thrown, hits, grabs, picked   bombs created, bombs that hit, characters
\*           acquired and supply drops collected by the handler
\*   moved   characters updated by the handler after gameOver
\*   landed  bombs dropped from the list at the ground line
\*   hitlog  for each bomb hit, the character before and after the hit
\*   rel     the characters let go by the release block, as it leaves them
\*   scan    for each target search: the population searched, the pinch point
\*           and the id found
\*   bad     the kind of malformed landmark frame of the tick, "none" if well formed
\*   threw   the handler ended by an exception
\*   nan     the ids of the characters whose position became NaN
\*   hand    the landmark frame of the tick holds a hand
\*   point   pinchPoint of the tick (NoPoint: none was computed)
\*   dist2, five   pinchDist (squared) and isFiveFingerPinch of the tick
SetStatus(w, st) == [w EXCEPT !.g.status = st, !.trace = Append(@, st)]

startGame(w, src) ==
  LET w1 == [w EXCEPT !.g.level = 1, !.g.score = 0, !.g.levelScore = 0,
                      !.g.bombs = <<>>, !.g.supplyDrops = <<>>,
                      !.g.hasDropSpawned = FALSE, !.g.bombsRemaining = MAX_BOMBS,
                      !.g.characters = spawnCharacters(1, w.cid, src),
                      !.cid = @ + SpawnCount(1),
                      !.g.grabbedCharId = -1, !.g.isPinching = FALSE]
  IN SetStatus(w1, "PLAYING")

\* (mutant) the reset goes back to IDLE
resetToStandby_ToIdle(w) ==
  LET w1 == SetStatus(w, "IDLE")
  IN [w1 EXCEPT !.g.characters = <<>>, !.g.bombs = <<>>, !.g.supplyDrops = <<>>,
                !.g.grabbedCharId = -1]

resetToStandby(w) ==
  LET w1 == SetStatus(w, "STANDBY")
  IN [w1 EXCEPT !.g.characters = <<>>, !.g.bombs = <<>>, !.g.supplyDrops = <<>>,
                !.g.grabbedCharId = -1]

MessagePool(currentLevel) ==
  IF currentLevel <= 3 THEN "easy" ELSE IF currentLevel <= 7 THEN "medium" ELSE "hard"

\* (mutant) the level-up screen is shown but the next level is never scheduled
triggerLevelUp_NoTimer(w, clock) ==
  LET w1 == SetStatus(w, "LEVEL_UP")
  IN [w1 EXCEPT !.g.levelUpMessage = MessagePool(w.g.level)]

\* clock is the time at which the handler runs; the message is kept as its pool
triggerLevelUp(w, clock) ==
  LET w1 == SetStatus(w, "LEVEL_UP")
  IN [w1 EXCEPT !.g.levelUpMessage = MessagePool(w.g.level),
                !.timers = Append(@, clock + LEVEL_UP_DELAY)]

\* (mutant) the next level starts without clearing levelScore
nextLevel_KeepLevelScore(w, src) ==
  LET nextLvl == w.g.level + 1
      w1 == [w EXCEPT !.g.level = nextLvl, !.g.bombs = <<>>,
                      !.g.supplyDrops = <<>>, !.g.hasDropSpawned = FALSE,
                      !.g.characters = spawnCharacters(nextLvl, w.cid, src),
                      !.cid = @ + SpawnCount(nextLvl),
                      !.g.grabbedCharId = -1]
  IN SetStatus(w1, "PLAYING")

\* (mutant) the next level starts with the ammunition refilled
nextLevel_Refill(w, src) ==
  LET nextLvl == w.g.level + 1
      w1 == [w EXCEPT !.g.level = nextLvl, !.g.levelScore = 0, !.g.bombs = <<>>,
                      !.g.supplyDrops = <<>>, !.g.hasDropSpawned = FALSE,
                      !.g.bombsRemaining = MAX_BOMBS,
                      !.g.characters = spawnCharacters(nextLvl, w.cid, src),
                      !.cid = @ + SpawnCount(nextLvl),
                      !.g.grabbedCharId = -1]
  IN SetStatus(w1, "PLAYING")

nextLevel(w, src) ==
  LET nextLvl == w.g.level + 1
      w1 == [w EXCEPT !.g.level = nextLvl, !.g.levelScore = 0, !.g.bombs = <<>>,
                      !.g.supplyDrops = <<>>, !.g.hasDropSpawned = FALSE,
                      !.g.characters = spawnCharacters(nextLvl, w.cid, src),
                      !.cid = @ + SpawnCount(nextLvl),
                      !.g.grabbedCharId = -1]
  IN SetStatus(w1, "PLAYING")

gameOver(w) == SetStatus(w, "GAME_OVER")

\* (mutant) the level is passed only when the score of the level exceeds the mark
addScore_PastTheMark(w, points, clock) ==
  LET w1 == [w EXCEPT !.g.score = @ + points, !.g.levelScore = @ + points,
                      !.pts = @ + points,
                      !.late = IF w.g.status = "PLAYING" THEN @ ELSE @ + points,
                      !.over = IF w.g.status = "GAME_OVER" THEN @ + points ELSE @]
  IN IF w1.g.levelScore > SCORE_TO_PASS_LEVEL /\ w1.g.status = "PLAYING"
     THEN triggerLevelUp(w1, clock)
     ELSE w1

addScore(w, points, clock) ==
  LET w1 == [w EXCEPT !.g.score = @ + points, !.g.levelScore = @ + points,
                      !.pts = @ + points,
                      !.late = IF w.g.status = "PLAYING" THEN @ ELSE @ + points,
                      !.over = IF w.g.status = "GAME_OVER" THEN @ + points ELSE @]
  IN IF w1.g.levelScore >= SCORE_TO_PASS_LEVEL /\ w1.g.status = "PLAYING"
     THEN triggerLevelUp(w1, clock)
     ELSE w1

\* ---------------------------------------------------------------- STANDBY tick
AmbientChar(id, extraVx) ==
  [id |-> id, x |-> (-100) * S, y |-> groundLine, vx |-> 150 + extraVx,
   originalSpeed |-> 150, vy |-> 0, state |-> "RUNNING", isDead |-> FALSE,
   isTricking |-> FALSE, hasTricked |-> FALSE, trickTimer |-> 0]

\* (mutant) the passers-by are never dropped
RECURSIVE WalkAmbient_KeepAll(_, _)
WalkAmbient_KeepAll(chars, dt) ==
  IF chars = <<>> THEN <<>>
  ELSE LET char == [Head(chars) EXCEPT !.x = @ + Head(chars).vx * dt]
       IN <<char>> \o WalkAmbient_KeepAll(Tail(chars), dt)

\* the passers-by advance and those beyond the right edge are dropped
RECURSIVE WalkAmbient(_, _)
WalkAmbient(chars, dt) ==
  IF chars = <<>> THEN <<>>
  ELSE LET char == [Head(chars) EXCEPT !.x = @ + Head(chars).vx * dt]
       IN IF char.x < (CanvasWidth + 100) * S
          THEN <<char>> \o WalkAmbient(Tail(chars), dt)
          ELSE WalkAmbient(Tail(chars), dt)

InStartButton(pinchPoint) ==
  LET btnW == 320 * S
      btnH == 150 * S
      btnX == (CanvasWidth * S) \div 2 - btnW \div 2
      btnY == (CanvasHeight * S) \div 2 - btnH \div 2
  IN /\ pinchPoint[1] > btnX /\ pinchPoint[1] < btnX + btnW
     /\ pinchPoint[2] > btnY /\ pinchPoint[2] < btnY + btnH

\* in.ambient: the 1.5% trial succeeded; in.src: the random source of the tick
StandbyTick(w, pinchPoint, dt, in) ==
  LET w1 == IF in.ambient
            THEN [w EXCEPT !.g.characters =
                              Append(@, AmbientChar(w.cid, (Rand(in.src, 1) * S) \div 1000)),
                           !.cid = @ + 1]
            ELSE w
      w2 == [w1 EXCEPT !.g.characters = WalkAmbient(@, dt)]
  IN IF pinchPoint # NoPoint /\ InStartButton(pinchPoint) /\ w2.g.isPinching
     THEN startGame(w2, in.src)
     ELSE w2

\* ---------------------------------------------------------------- supply drops
\* (mutant) the supply trial does not look at hasDropSpawned
SpawnDrop_EveryTrial(w, in) ==
  IF w.g.level >= 3 /\ w.g.status = "PLAYING" /\ in.drop
  THEN [w EXCEPT !.g.supplyDrops =
                    Append(@, [id |-> w.did,
                               x |-> 100 * S + (Rand(in.src, 1) * (CanvasWidth - 200) * S) \div 1000,
                               y |-> (-50) * S, vy |-> 200]),
                 !.did = @ + 1,
                 !.g.hasDropSpawned = TRUE]
  ELSE w

SpawnDrop(w, in) ==
  IF w.g.level >= 3 /\ ~w.g.hasDropSpawned /\ w.g.status = "PLAYING" /\ in.drop
  THEN [w EXCEPT !.g.supplyDrops =
                    Append(@, [id |-> w.did,
                               x |-> 100 * S + (Rand(in.src, 1) * (CanvasWidth - 200) * S) \div 1000,
                               y |-> (-50) * S, vy |-> 200]),
                 !.did = @ + 1,
                 !.g.hasDropSpawned = TRUE]
  ELSE w

\* (mutant) a pickup adds ammunition without looking at the cap
RECURSIVE UpdateDrops_NoCap(_, _, _, _, _)
UpdateDrops_NoCap(w, drops, kept, pinchPoint, dt) ==
  IF drops = <<>> THEN [w EXCEPT !.g.supplyDrops = kept]
  ELSE
    LET drop == [Head(drops) EXCEPT !.y = @ + Head(drops).vy * dt]
        picked == /\ pinchPoint # NoPoint
                  /\ w.g.isPinching
                  /\ HypotLess(pinchPoint[1] - drop.x, pinchPoint[2] - drop.y, 60 * S)
        w1 == IF picked
              THEN [w EXCEPT !.g.bombsRemaining = @ + 1, !.picked = @ + 1]
              ELSE w
    IN UpdateDrops_NoCap(w1, Tail(drops),
                         IF ~picked /\ drop.y < (CanvasHeight + 50) * S
                         THEN Append(kept, drop) ELSE kept,
                         pinchPoint, dt)

\* (mutant) a drop that was not picked stays in the list wherever it is
RECURSIVE UpdateDrops_KeepFallen(_, _, _, _, _)
UpdateDrops_KeepFallen(w, drops, kept, pinchPoint, dt) ==
  IF drops = <<>> THEN [w EXCEPT !.g.supplyDrops = kept]
  ELSE
    LET drop == [Head(drops) EXCEPT !.y = @ + Head(drops).vy * dt]
        picked == /\ pinchPoint # NoPoint
                  /\ w.g.isPinching
                  /\ HypotLess(pinchPoint[1] - drop.x, pinchPoint[2] - drop.y, 60 * S)
        w1 == IF picked /\ w.g.bombsRemaining < MAX_BOMBS
              THEN [w EXCEPT !.g.bombsRemaining = @ + 1]
              ELSE w
        w2 == IF picked THEN [w1 EXCEPT !.picked = @ + 1] ELSE w1
    IN UpdateDrops_KeepFallen(w2, Tail(drops),
                              IF ~picked THEN Append(kept, drop) ELSE kept,
                              pinchPoint, dt)

RECURSIVE UpdateDrops(_, _, _, _, _)
UpdateDrops(w, drops, kept, pinchPoint, dt) ==
  IF drops = <<>> THEN [w EXCEPT !.g.supplyDrops = kept]
  ELSE
    LET drop == [Head(drops) EXCEPT !.y = @ + Head(drops).vy * dt]
        picked == /\ pinchPoint # NoPoint
                  /\ w.g.isPinching
                  /\ HypotLess(pinchPoint[1] - drop.x, pinchPoint[2] - drop.y, 60 * S)
        w1 == IF picked /\ w.g.bombsRemaining < MAX_BOMBS
              THEN [w EXCEPT !.g.bombsRemaining = @ + 1]
              ELSE w
        w2 == IF picked THEN [w1 EXCEPT !.picked = @ + 1] ELSE w1
    IN UpdateDrops(w2, Tail(drops),
                   IF ~picked /\ drop.y < (CanvasHeight + 50) * S
                   THEN Append(kept, drop) ELSE kept,
                   pinchPoint, dt)

\* ---------------------------------------------------------------- bombs
\* (mutant) a bomb is thrown without waiting for the cooldown
SpawnBomb_NoCooldown(w, pinchPoint, isFive, isLevelUp, time) ==
  IF ~isLevelUp /\ isFive /\ pinchPoint # NoPoint /\ w.g.bombsRemaining > 0
  THEN [w EXCEPT !.g.bombs = Append(@, [id |-> w.bid, x |-> pinchPoint[1],
                                         y |-> pinchPoint[2], vy |-> 0, active |-> TRUE]),
                 !.bid = @ + 1,
                 !.g.lastBombTime = time,
                 !.g.bombsRemaining = @ - 1,
                 !.thrown = @ + 1]
  ELSE w

SpawnBomb(w, pinchPoint, isFive, isLevelUp, time) ==
  IF ~isLevelUp /\ isFive /\ pinchPoint # NoPoint
     /\ time - w.g.lastBombTime > BOMB_COOLDOWN /\ w.g.bombsRemaining > 0
  THEN [w EXCEPT !.g.bombs = Append(@, [id |-> w.bid, x |-> pinchPoint[1],
                                         y |-> pinchPoint[2], vy |-> 0, active |-> TRUE]),
                 !.bid = @ + 1,
                 !.g.lastBombTime = time,
                 !.g.bombsRemaining = @ - 1,
                 !.thrown = @ + 1]
  ELSE w

BombHits(bomb, char, isLevelUp) ==
  LET dx == bomb.x - char.x
      dy == bomb.y - char.y
      hitW == (CHARACTER_WIDTH * S * 8) \div 10
      hitH == (CHARACTER_HEIGHT * S * 8) \div 10
  IN Abs(dx) < hitW /\ Abs(dy) < hitH /\ bomb.active /\ ~isLevelUp

\* index of the first live character the bomb hits, 0 if none
RECURSIVE FirstHit(_, _, _, _)
FirstHit(bomb, chars, i, isLevelUp) ==
  IF i > Len(chars) THEN 0
  ELSE IF ~chars[i].isDead /\ BombHits(bomb, chars[i], isLevelUp) THEN i
  ELSE FirstHit(bomb, chars, i + 1, isLevelUp)

\* (mutant) the knock-back is applied to the velocity
KnockBack_Velocity(char) ==
  LET c1 == [char EXCEPT !.vx = @ - 150 * S]
  IN IF c1.y > groundY - CHARACTER_HEIGHT * S
     THEN [c1 EXCEPT !.y = @ - 40 * S, !.vy = -800, !.state = "FALLING"]
     ELSE c1

KnockBack(char) ==
  LET c1 == [char EXCEPT !.x = @ - 150 * S]
  IN IF c1.y > groundY - CHARACTER_HEIGHT * S
     THEN [c1 EXCEPT !.y = @ - 40 * S, !.vy = -800, !.state = "FALLING"]
     ELSE c1

\* (mutant) a bomb that has hit stays in the list
RECURSIVE UpdateBombs_KeepHit(_, _, _, _, _, _)
UpdateBombs_KeepHit(w, bombs, activeBombs, isLevelUp, dt, time) ==
  IF bombs = <<>> THEN [w EXCEPT !.g.bombs = activeBombs]
  ELSE
    LET b0 == Head(bombs)
        bomb == IF isLevelUp THEN b0
                ELSE [b0 EXCEPT !.vy = @ + GRAVITY * dt,
                                !.y = @ + (b0.vy + GRAVITY * dt) * dt]
        h == FirstHit(bomb, w.g.characters, 1, isLevelUp)
        w1 == IF h = 0 THEN w
              ELSE [addScore(w, 1, time) EXCEPT !.g.characters[h] = KnockBack(@),
                                                !.hits = @ + 1,
                                                !.hitlog = Append(@, <<w.g.characters[h],
                                                                       KnockBack(w.g.characters[h])>>)]
        w2 == IF h = 0 /\ ~(bomb.y < groundY + 15 * S) THEN [w1 EXCEPT !.landed = @ + 1] ELSE w1
    IN UpdateBombs_KeepHit(w2, Tail(bombs),
                           IF bomb.y < groundY + 15 * S
                           THEN Append(activeBombs, bomb) ELSE activeBombs,
                           isLevelUp, dt, time)

RECURSIVE UpdateBombs(_, _, _, _, _, _)
UpdateBombs(w, bombs, activeBombs, isLevelUp, dt, time) ==
  IF bombs = <<>> THEN [w EXCEPT !.g.bombs = activeBombs]
  ELSE
    LET b0 == Head(bombs)
        bomb == IF isLevelUp THEN b0
                ELSE [b0 EXCEPT !.vy = @ + GRAVITY * dt,
                                !.y = @ + (b0.vy + GRAVITY * dt) * dt]
        h == FirstHit(bomb, w.g.characters, 1, isLevelUp)
        w1 == IF h = 0 THEN w
              ELSE [addScore(w, 1, time) EXCEPT !.g.characters[h] = KnockBack(@),
                                                !.hits = @ + 1,
                                                !.hitlog = Append(@, <<w.g.characters[h],
                                                                       KnockBack(w.g.characters[h])>>)]
        w2 == IF h = 0 /\ ~(bomb.y < groundY + 15 * S) THEN [w1 EXCEPT !.landed = @ + 1] ELSE w1
    IN UpdateBombs(w2, Tail(bombs),
                   IF h = 0 /\ bomb.y < groundY + 15 * S
                   THEN Append(activeBombs, bomb) ELSE activeBombs,
                   isLevelUp, dt, time)

\* ---------------------------------------------------------------- grab / release
\* (mutant) among equidistant candidates the last one wins
RECURSIVE FindTarget_LastNearest(_, _, _, _, _)
FindTarget_LastNearest(chars, i, pinchPoint, minD, foundId) ==
  IF i > Len(chars) THEN foundId
  ELSE
    LET char == chars[i]
        dx == pinchPoint[1] - char.x
        dy == pinchPoint[2] - char.y
        near == HypotLess(dx, dy, GRAB_MAGNET_RADIUS * S)
        closer == near /\ (minD = <<>> \/ dx * dx + dy * dy <= minD[1])
    IN IF char.isDead \/ (char.state # "RUNNING" /\ char.state # "JUMPING") \/ ~closer
       THEN FindTarget_LastNearest(chars, i + 1, pinchPoint, minD, foundId)
       ELSE FindTarget_LastNearest(chars, i + 1, pinchPoint, <<dx * dx + dy * dy>>, char.id)

\* the scan of the magnet algorithm: minD is the least distance (squared) so far
RECURSIVE FindTarget(_, _, _, _, _)
FindTarget(chars, i, pinchPoint, minD, foundId) ==
  IF i > Len(chars) THEN foundId
  ELSE
    LET char == chars[i]
        dx == pinchPoint[1] - char.x
        dy == pinchPoint[2] - char.y
        near == HypotLess(dx, dy, GRAB_MAGNET_RADIUS * S)
        closer == near /\ (minD = <<>> \/ dx * dx + dy * dy < minD[1])
    IN IF char.isDead \/ (char.state # "RUNNING" /\ char.state # "JUMPING") \/ ~closer
       THEN FindTarget(chars, i + 1, pinchPoint, minD, foundId)
       ELSE FindTarget(chars, i + 1, pinchPoint, <<dx * dx + dy * dy>>, char.id)

\* index of the first character with this id (Array.find), 0 if none
RECURSIVE FindById(_, _, _)
FindById(chars, id, i) ==
  IF i > Len(chars) THEN 0
  ELSE IF chars[i].id = id THEN i ELSE FindById(chars, id, i + 1)

\* the acquisition proper, once its guard has passed
Grab(w, pinchPoint, time) ==
    LET foundId == FindTarget(w.g.characters, 1, pinchPoint, <<>>, -1)
        k == FindById(w.g.characters, foundId, 1)
        w0 == [w EXCEPT !.scan = Append(@, <<w.g.characters, pinchPoint, foundId>>)]
    IN IF foundId = -1 THEN w0
       ELSE IF k = 0 THEN [w0 EXCEPT !.g.grabbedCharId = foundId]
       ELSE addScore([w0 EXCEPT !.g.grabbedCharId = foundId,
                               !.g.characters[k].state = "GRABBED",
                               !.g.characters[k].isTricking = FALSE,
                               !.grabs = @ + 1], 1, time)

\* (mutant) a new target is sought although a character is held
Acquire_WhileHolding(w, pinchPoint, isLevelUp, time) ==
  IF ~isLevelUp /\ w.g.isPinching /\ pinchPoint # NoPoint
  THEN Grab(w, pinchPoint, time)
  ELSE w

Acquire(w, pinchPoint, isLevelUp, time) ==
  IF ~isLevelUp /\ w.g.grabbedCharId = -1 /\ w.g.isPinching /\ pinchPoint # NoPoint
  THEN Grab(w, pinchPoint, time)
  ELSE w

\* (mutant) the release leaves the velocities as they are
Release_KeepVelocity(w) ==
  IF ~w.g.isPinching /\ w.g.grabbedCharId # -1
  THEN
    LET k == FindById(w.g.characters, w.g.grabbedCharId, 1)
        w1 == IF k = 0 THEN w
              ELSE [w EXCEPT !.g.characters[k].state = "FALLING",
                             !.rel = Append(@, [w.g.characters[k] EXCEPT !.state = "FALLING"])]
    IN [w1 EXCEPT !.g.grabbedCharId = -1]
  ELSE w

Release(w) ==
  IF ~w.g.isPinching /\ w.g.grabbedCharId # -1
  THEN
    LET k == FindById(w.g.characters, w.g.grabbedCharId, 1)
        let_go == [w.g.characters[k] EXCEPT !.state = "FALLING",
                                            !.vx = w.g.characters[k].originalSpeed,
                                            !.vy = 0]
        w1 == IF k = 0 THEN w
              ELSE [w EXCEPT !.g.characters[k] = let_go, !.rel = Append(@, let_go)]
    IN [w1 EXCEPT !.g.grabbedCharId = -1]
  ELSE w

\* ---------------------------------------------------------------- characters
\* roll: the outcome of the AI trial of this character in this tick
AiStep(char, level, isLevelUp, roll) ==
  IF level >= 2 /\ char.state = "RUNNING" /\ ~isLevelUp
     /\ ~char.isTricking /\ ~char.hasTricked /\ roll # "none"
  THEN IF roll = "jump"
       THEN [char EXCEPT !.vy = -1600, !.state = "JUMPING"]
       ELSE [char EXCEPT !.isTricking = TRUE, !.trickTimer = 45, !.vx = -250]
  ELSE char

TrickStep(char, dt) ==
  IF char.isTricking
  THEN IF char.trickTimer - dt <= 0
       THEN [char EXCEPT !.trickTimer = @ - dt, !.isTricking = FALSE, !.hasTricked = TRUE,
                         !.vx = (char.originalSpeed * 3) \div 2]
       ELSE [char EXCEPT !.trickTimer = @ - dt]
  ELSE IF char.state = "RUNNING" /\ ~char.hasTricked /\ char.vx > char.originalSpeed
       THEN [char EXCEPT !.vx = Max(char.vx - 5 * dt, char.originalSpeed)]
       ELSE char

\* (mutant) a character that reaches the ground line stays in its state
PhysicsStep_NoLanding(char, isLevelUp, dt) ==
  IF char.state = "RUNNING"
  THEN [char EXCEPT !.x = @ + (IF isLevelUp THEN 0 ELSE char.vx) * dt, !.y = groundLine]
  ELSE IF char.state = "FALLING" \/ char.state = "JUMPING"
  THEN LET vy1 == char.vy + GRAVITY * dt
           y1 == char.y + vy1 * dt
       IN IF y1 >= groundLine
          THEN [char EXCEPT !.x = @ + char.vx * dt, !.y = groundLine, !.vy = 0,
                            !.vx = IF char.vx < 0 THEN char.originalSpeed ELSE char.vx]
          ELSE [char EXCEPT !.x = @ + char.vx * dt, !.vy = vy1, !.y = y1]
  ELSE char

PhysicsStep(char, isLevelUp, dt) ==
  IF char.state = "RUNNING"
  THEN [char EXCEPT !.x = @ + (IF isLevelUp THEN 0 ELSE char.vx) * dt, !.y = groundLine]
  ELSE IF char.state = "FALLING" \/ char.state = "JUMPING"
  THEN LET vy1 == char.vy + GRAVITY * dt
           y1 == char.y + vy1 * dt
       IN IF y1 >= groundLine
          THEN [char EXCEPT !.x = @ + char.vx * dt, !.y = groundLine, !.vy = 0,
                            !.state = "RUNNING",
                            !.vx = IF char.vx < 0 THEN char.originalSpeed ELSE char.vx]
          ELSE [char EXCEPT !.x = @ + char.vx * dt, !.vy = vy1, !.y = y1]
  ELSE char

\* the body of the character loop up to the failure check
MoveChar(char, grabbed, pinchPoint, level, isLevelUp, dt, roll) ==
  IF char.id = grabbed /\ pinchPoint # NoPoint /\ ~isLevelUp
  THEN [char EXCEPT !.x = @ + ((pinchPoint[1] - char.x) * 6) \div 10,
                    !.y = @ + ((pinchPoint[2] - char.y) * 6) \div 10,
                    !.vy = 0]
  ELSE PhysicsStep(TrickStep(AiStep(char, level, isLevelUp, roll), dt), isLevelUp, dt)

\* (mutant) the failure check does not look at isLevelUp
Escaped_InLevelUp(char, isLevelUp) == char.x > (CanvasWidth + 20) * S

\* the failure check of the character loop
Escaped(char, isLevelUp) == ~isLevelUp /\ char.x > (CanvasWidth + 20) * S

\* (mutant) the character loop goes on after the failure check has fired
RECURSIVE UpdateChars_NoReturn(_, _, _, _, _, _)
UpdateChars_NoReturn(world, i, pinchPoint, isLevelUp, dt, ai) ==
  LET Body(w) ==
      IF i > Len(w.g.characters) THEN w
      ELSE IF w.g.characters[i].isDead
      THEN UpdateChars_NoReturn(w, i + 1, pinchPoint, isLevelUp, dt, ai)
      ELSE
        LET char == MoveChar(w.g.characters[i], w.g.grabbedCharId, pinchPoint,
                             w.g.level, isLevelUp, dt, ai[i])
            held == char.id = w.g.grabbedCharId /\ pinchPoint # NoPoint /\ ~isLevelUp
            acted == ~held /\ AiStep(w.g.characters[i], w.g.level, isLevelUp, ai[i])
                                 # w.g.characters[i]
            w1 == [w EXCEPT !.g.characters[i] = char,
                            !.moved = IF w.g.status = "GAME_OVER" THEN @ + 1 ELSE @,
                            !.acts = IF acted THEN Append(@, char.id) ELSE @]
        IN IF Escaped(char, isLevelUp)
           THEN UpdateChars_NoReturn(gameOver(w1), i + 1, pinchPoint, isLevelUp, dt, ai)
           ELSE UpdateChars_NoReturn([w1 EXCEPT !.g.characters[i].x = Max(char.x, (-300) * S)],
                                     i + 1, pinchPoint, isLevelUp, dt, ai)
  IN CHOOSE r \in {Body(w) : w \in {world}} : TRUE

RECURSIVE UpdateChars(_, _, _, _, _, _)
UpdateChars(world, i, pinchPoint, isLevelUp, dt, ai) ==
  LET Body(w) ==
      IF i > Len(w.g.characters) THEN w
      ELSE IF w.g.characters[i].isDead
      THEN UpdateChars(w, i + 1, pinchPoint, isLevelUp, dt, ai)
      ELSE
        LET char == MoveChar(w.g.characters[i], w.g.grabbedCharId, pinchPoint,
                             w.g.level, isLevelUp, dt, ai[i])
            held == char.id = w.g.grabbedCharId /\ pinchPoint # NoPoint /\ ~isLevelUp
            acted == ~held /\ AiStep(w.g.characters[i], w.g.level, isLevelUp, ai[i])
                                 # w.g.characters[i]
            w1 == [w EXCEPT !.g.characters[i] = char,
                            !.moved = IF w.g.status = "GAME_OVER" THEN @ + 1 ELSE @,
                            !.acts = IF acted THEN Append(@, char.id) ELSE @]
        IN IF Escaped(char, isLevelUp)
           THEN gameOver(w1)
           ELSE UpdateChars([w1 EXCEPT !.g.characters[i].x = Max(char.x, (-300) * S)],
                            i + 1, pinchPoint, isLevelUp, dt, ai)
  IN CHOOSE r \in {Body(w) : w \in {world}} : TRUE

\* ---------------------------------------------------------------- the tick
\* updateAndDrawGame(ctx, allLandmarks, time); in holds the random trials of the tick:
\*   in.src the random source, in.ambient / in.drop the STANDBY and supply trials,
\*   in.ai the AI trial outcome of each character of the population
PlayTick(w, gs, dt, time, in) ==
  LET isLevelUp == w.g.status = "LEVEL_UP"
      pinchPoint == gs.pinchPoint
      w1 == SpawnDrop(w, in)
      w2 == UpdateDrops(w1, w1.g.supplyDrops, <<>>, pinchPoint, dt)
      w3 == SpawnBomb(w2, pinchPoint, gs.isFiveFingerPinch, isLevelUp, time)
      w4 == UpdateBombs(w3, w3.g.bombs, <<>>, isLevelUp, dt, time)
      w5 == Acquire(w4, pinchPoint, isLevelUp, time)
      w6 == Release(w5)
  IN UpdateChars(w6, 1, pinchPoint, isLevelUp, dt, in.ai)

updateAndDrawGame(w, allLandmarks, time, in) ==
  IF w.g.status = "GAME_OVER" THEN [w EXCEPT !.hand = Len(allLandmarks) > 0]
  ELSE
    LET dt == (time - w.g.lastTime) \div FRAME
        gs == Gesture(allLandmarks, w.g.grabbedCharId)
        w1 == [w EXCEPT !.g.lastTime = time,
                        !.hand = Len(allLandmarks) > 0,
                        !.g.isPinching = Hysteresis(@, gs.pinchDist2, gs.isFiveFingerPinch),
                        !.point = gs.pinchPoint,
                        !.dist2 = gs.pinchDist2,
                        !.five = gs.isFiveFingerPinch]
    IN IF w1.g.status = "STANDBY"
       THEN StandbyTick(w1, gs.pinchPoint, dt, in)
       ELSE PlayTick(w1, gs, dt, time, in)

\* updateAndDrawGame on a frame whose first hand has fewer than 21 points: past
\* the GAME_OVER return and the update of lastTime, getPx reads a coordinate of
\* an undefined landmark and throws; predictWebcam catches the exception, logs
\* it and ends without requesting the next frame.
ShortHandTick(w, time) ==
  IF w.g.status = "GAME_OVER" THEN [w EXCEPT !.bad = "short", !.hand = TRUE]
  ELSE [w EXCEPT !.g.lastTime = time, !.bad = "short", !.hand = TRUE, !.threw = TRUE,
                 !.loop = FALSE]

\* updateAndDrawGame on a frame whose first hand has NaN coordinates: every
\* distance is NaN, so no comparison holds: no bomb gesture, isPinching keeps its
\* value, the pinch point is a point of NaNs that is in no button, near no drop
\* and near no character, and the held character is moved towards it.
NaNHandTick(w, time, in) ==
  IF w.g.status = "GAME_OVER" THEN [w EXCEPT !.bad = "nan", !.hand = TRUE]
  ELSE
    LET dt == (time - w.g.lastTime) \div FRAME
        w1 == [w EXCEPT !.g.lastTime = time, !.bad = "nan", !.hand = TRUE]
        isLevelUp == w1.g.status = "LEVEL_UP"
        w2 == SpawnDrop(w1, in)
        w3 == UpdateDrops(w2, w2.g.supplyDrops, <<>>, NoPoint, dt)
        w4 == UpdateBombs(w3, w3.g.bombs, <<>>, isLevelUp, dt, time)
        w5 == Release(w4)
        w6 == IF w5.g.grabbedCharId # -1 /\ ~isLevelUp
              THEN [w5 EXCEPT !.nan = {w5.g.grabbedCharId}] ELSE w5
    IN IF w1.g.status = "STANDBY"
       THEN StandbyTick(w1, NoPoint, dt, in)
       ELSE UpdateChars(w6, 1, NoPoint, isLevelUp, dt, in.ai)

\* ---------------------------------------------------------------- leaderboard
\* The object store is the sequence of its records in the order of their keys
\* (autoIncrement: the key of a record is its place).  db.add stores the value
\* with its key in the field id.
saveScore(store, name, score, level, clock) ==
  Append(store, [id |-> Len(store) + 1, name |-> name, score |-> score, level |-> level,
                 date |-> clock])

\* (mutant) among equal scores the cursor meets the oldest record first
Before_OldestFirst(a, b) == a.score > b.score \/ (a.score = b.score /\ a.id < b.id)

\* the cursor of the index 'by-score' opened with direction 'prev' meets a before
\* b: index records are ordered by score, then by primary key, and are visited
\* from the last one
Before(a, b) == a.score > b.score \/ (a.score = b.score /\ a.id > b.id)

\* (mutant) the cursor is not reversed
RECURSIVE WalkCursor_Forward(_, _, _)
WalkCursor_Forward(rest, results, limit) ==
  IF rest = {} \/ ~(Len(results) < limit) THEN results
  ELSE LET value == CHOOSE r \in rest : \A o \in rest \ {r} : Before(o, r)
       IN WalkCursor_Forward(rest \ {value}, Append(results, value), limit)

\* the while loop of getTopScores: rest holds the records the cursor has not met
RECURSIVE WalkCursor(_, _, _)
WalkCursor(rest, results, limit) ==
  IF rest = {} \/ ~(Len(results) < limit) THEN results
  ELSE LET value == CHOOSE r \in rest : \A o \in rest \ {r} : Before(r, o)
       IN WalkCursor(rest \ {value}, Append(results, value), limit)

getTopScores(store, limit) ==
  WalkCursor({store[i] : i \in 1..Len(store)}, <<>>, limit)

\* ---------------------------------------------------------------- state
VARIABLES
  game,            \* gameState.current
  charIdCounter, bombIdCounter, dropIdCounter,
  timers,          \* due times of the pending setTimeout(nextLevel) callbacks
  now,             \* the clock: the time of the last frame
  ticks,           \* the number of frames delivered so far
  clicks,          \* the number of buttons pressed so far
  cameraActive,    \* the camera stream is on and the frame loop runs
  submitPending,   \* handleSubmit awaits submitScore
  looping,         \* requestAnimationFrame(predictWebcam) is pending
  scores,          \* the object store 'scores' of the leaderboard database
  leaderboard,     \* the list shown, set by refreshLeaderboard
  saving,          \* the arguments of the saveScore call under way, <<>> if none
  aiActs,          \* ids of the characters that started a jump or a trick (history)
  ev               \* what the last handler did (history)

vars == <<game, charIdCounter, bombIdCounter, dropIdCounter, timers, now, ticks,
          clicks, cameraActive, submitPending,
          looping, scores, leaderboard, saving, aiActs, ev>>

board == <<scores, leaderboard, saving>>

\* the world at the start of handler op
World(op) ==
  [g |-> game, cid |-> charIdCounter, bid |-> bombIdCounter, did |-> dropIdCounter,
   timers |-> timers, acts |-> aiActs, loop |-> looping, op |-> op, start |-> game.status, trace |-> <<>>, pts |-> 0,
   late |-> 0, over |-> 0, thrown |-> 0, hits |-> 0, grabs |-> 0, moved |-> 0, picked |-> 0,
   landed |-> 0, hitlog |-> <<>>, rel |-> <<>>, scan |-> <<>>,
   bad |-> "none", threw |-> FALSE, nan |-> {},
   hand |-> FALSE, point |-> NoPoint, dist2 |-> NoPinchDist2, five |-> FALSE]

\* the handler's result becomes the next state
Commit(world) ==
  \E w \in {world} :
    /\ game' = w.g
    /\ charIdCounter' = w.cid
    /\ bombIdCounter' = w.bid
    /\ dropIdCounter' = w.did
    /\ timers' = w.timers
    /\ aiActs' = w.acts
    /\ looping' = w.loop
    /\ ev' = [op |-> w.op, start |-> w.start, trace |-> w.trace, pts |-> w.pts,
              late |-> w.late, over |-> w.over, thrown |-> w.thrown, hits |-> w.hits, grabs |-> w.grabs,
              moved |-> w.moved, picked |-> w.picked,
              landed |-> w.landed, hitlog |-> w.hitlog, rel |-> w.rel, scan |-> w.scan,
              bad |-> w.bad, threw |-> w.threw, nan |-> w.nan,
              hand |-> w.hand, point |-> w.point, dist2 |-> w.dist2, five |-> w.five]

InitGame ==
  [characters |-> <<>>, bombs |-> <<>>, supplyDrops |-> <<>>, level |-> 1, score |-> 0,
   levelScore |-> 0, bombsRemaining |-> MAX_BOMBS, lastTime |-> 0, lastBombTime |-> 0,
   status |-> "IDLE", grabbedCharId |-> -1, isPinching |-> FALSE,
   hasDropSpawned |-> FALSE, levelUpMessage |-> ""]

NoEvent(st) ==
  [op |-> "init", start |-> st, trace |-> <<>>, pts |-> 0, late |-> 0, over |-> 0,
   thrown |-> 0, hits |-> 0, grabs |-> 0, moved |-> 0, picked |-> 0,
   landed |-> 0, hitlog |-> <<>>, rel |-> <<>>, scan |-> <<>>,
   bad |-> "none", threw |-> FALSE, nan |-> {},
   hand |-> FALSE, point |-> NoPoint, dist2 |-> NoPinchDist2, five |-> FALSE]

\* a browser profile in which no score has been saved
EmptyBoard == scores = <<>> /\ leaderboard = <<>> /\ saving = <<>>

\* the state after construction
InitFresh ==
  /\ game = InitGame
  /\ charIdCounter = 0
  /\ bombIdCounter = 0
  /\ dropIdCounter = 0
  /\ timers = <<>>
  /\ now = 0
  /\ cameraActive = FALSE
  /\ ev = NoEvent("IDLE")

\* A session under way, 50 s after the page loaded: level 2 with 9 of its 10
\* points made (MAX_BOMBS - ammo of them by bombs, the last one thrown 1000
\* frames ago), two characters of the wave dragged back to the left edge and the
\* other one about to escape.
MidChar(id, xpx, speed) ==
  [id |-> id, x |-> xpx * S, y |-> groundLine, vx |-> speed, originalSpeed |-> speed, vy |-> 0,
   state |-> "RUNNING", isDead |-> FALSE, isTricking |-> FALSE, hasTricked |-> FALSE,
   trickTimer |-> 0]

\* the bombs left in that session
MidAmmos == {2}

MidGame(ammo) ==
  [characters |-> <<MidChar(2, 40, 98), MidChar(3, 1200, 98), MidChar(4, 0, 98)>>,
   bombs |-> <<>>, supplyDrops |-> <<>>, level |-> 2, score |-> 19, levelScore |-> 9,
   bombsRemaining |-> ammo, lastTime |-> 3000 * FRAME,
   lastBombTime |-> 2000 * FRAME,
   status |-> "PLAYING", grabbedCharId |-> -1, isPinching |-> FALSE,
   hasDropSpawned |-> FALSE, levelUpMessage |-> "easy"]

InitMidGame ==
  /\ \E ammo \in MidAmmos : game = MidGame(ammo) /\ bombIdCounter = MAX_BOMBS - ammo
  /\ charIdCounter = 5
  /\ dropIdCounter = 0
  /\ timers = <<>>
  /\ now = 3000 * FRAME
  /\ cameraActive = TRUE
  /\ ev = NoEvent("PLAYING")

\* A later session, 83 s after the page loaded: level 3 with 3 points made by
\* grabs, no bomb thrown yet, and the supply drop of the level half way down.
SupplyGame ==
  [characters |-> <<MidChar(5, 200, 112), MidChar(6, -50, 112), MidChar(7, 60, 112),
                    MidChar(8, -150, 112)>>,
   bombs |-> <<>>,
   supplyDrops |-> <<[id |-> 0, x |-> 640 * S, y |-> 330 * S, vy |-> 200]>>,
   level |-> 3, score |-> 23, levelScore |-> 3, bombsRemaining |-> MAX_BOMBS,
   lastTime |-> 5000 * FRAME, lastBombTime |-> 0, status |-> "PLAYING",
   grabbedCharId |-> -1, isPinching |-> FALSE, hasDropSpawned |-> TRUE,
   levelUpMessage |-> "easy"]

InitSupply ==
  /\ game = SupplyGame
  /\ charIdCounter = 9
  /\ bombIdCounter = 0
  /\ dropIdCounter = 1
  /\ timers = <<>>
  /\ now = 5000 * FRAME
  /\ cameraActive = TRUE
  /\ ev = NoEvent("PLAYING")

\* The level-2 session left by its exit button, 933 frames after a passer-by of
\* the STANDBY screen set out: the passer-by is 0.5 px short of canvas width + 20.
StandbyGame ==
  [characters |-> <<[AmbientChar(5, 0) EXCEPT !.x = (-100) * S + 150 * 933]>>,
   bombs |-> <<>>, supplyDrops |-> <<>>, level |-> 2, score |-> 19, levelScore |-> 9,
   bombsRemaining |-> 2, lastTime |-> 7000 * FRAME, lastBombTime |-> 2000 * FRAME,
   status |-> "STANDBY", grabbedCharId |-> -1, isPinching |-> FALSE,
   hasDropSpawned |-> FALSE, levelUpMessage |-> "easy"]

InitStandby ==
  /\ game = StandbyGame
  /\ charIdCounter = 6
  /\ bombIdCounter = 3
  /\ dropIdCounter = 0
  /\ timers = <<>>
  /\ now = 7000 * FRAME
  /\ cameraActive = TRUE
  /\ ev = NoEvent("STANDBY")

Init ==
  /\ InitFresh \/ InitMidGame \/ InitSupply \/ InitStandby
  /\ aiActs = <<>>
  /\ looping = cameraActive
  /\ ticks = 0
  /\ clicks = 0
  /\ submitPending = FALSE
  /\ EmptyBoard

\* ---------------------------------------------------------------- inputs
\* Hands are given by the displayed (mirrored) pixel of their tips.
Lm(px, py) == <<CanvasWidth - px, py>>

\* thumb and index d pixels apart around (ax, ay), the other fingers stretched out
PinchHand(ax, ay, d) ==
  [thumb |-> Lm(ax, ay + d \div 2), index |-> Lm(ax, ay + d \div 2 - d),
   middle |-> Lm(ax + 200, ay), ring |-> Lm(ax + 220, ay), pinky |-> Lm(ax + 240, ay)]

\* all four fingertips on the thumb, the thumb at (ax, ay)
FistHand(ax, ay) ==
  [thumb |-> Lm(ax, ay), index |-> Lm(ax, ay - 20), middle |-> Lm(ax + 10, ay - 20),
   ring |-> Lm(ax + 20, ay - 15), pinky |-> Lm(ax + 30, ay - 10)]

\* where the player reaches: at the characters on the left, and at the start button
Anchor == <<20, 580>>
Button == <<640, 360>>
BombSpot == <<20, 483>>

PinchDistances == {55, 90}

\* what the player types in the form of the GAME_OVER dialog
PlayerNames == {"A"}

Frames ==
  {<<>>}
  \cup {<<PinchHand(Anchor[1], Anchor[2], d)>> : d \in PinchDistances}
  \cup {<<PinchHand(Button[1], Button[2], 55)>>}
  \cup {<<FistHand(Anchor[1], Anchor[2])>>, <<FistHand(BombSpot[1], BombSpot[2])>>}

\* frames arrive one frame, or 2.5 s, after the previous one
Steps == {1, 150}

AiRolls(n) ==
  {[i \in 1..n |-> "none"]}
  \cup {[i \in 1..n |-> IF i = 1 THEN r ELSE "none"] : r \in {"jump", "trick"}}

TickInputs ==
  LET n == Len(game.characters)
  IN IF game.status = "STANDBY"
     THEN {[src |-> s, ambient |-> a, drop |-> FALSE, ai |-> [i \in 1..n + 1 |-> "none"]] :
             s \in {"zero"}, a \in BOOLEAN}
     ELSE {[src |-> "half", ambient |-> FALSE, drop |-> d, ai |-> r] :
             d \in BOOLEAN,
             r \in IF game.level >= 2 /\ game.status = "PLAYING"
                   THEN AiRolls(n) ELSE {[i \in 1..n |-> "none"]}}

\* ---------------------------------------------------------------- actions
\* startCamera: the stream starts, the frame loop is armed, status becomes STANDBY
StartCamera ==
  /\ ~cameraActive
  /\ cameraActive' = TRUE
  /\ Commit(SetStatus([World("startCamera") EXCEPT !.loop = TRUE], "STANDBY"))
  /\ UNCHANGED <<now, ticks, clicks, submitPending>>
  /\ UNCHANGED board

\* the start button (shown in STANDBY once the camera is on)
ClickStart ==
  /\ cameraActive /\ game.status \in {"IDLE", "STANDBY"} /\ clicks < MaxClicks
  /\ \E src \in RandomSources : Commit(startGame(World("startGame"), src))
  /\ clicks' = clicks + 1
  /\ UNCHANGED <<now, ticks, cameraActive, submitPending>>
  /\ UNCHANGED board

\* the retry button of the GAME_OVER dialog
ClickRetry ==
  /\ game.status = "GAME_OVER" /\ clicks < MaxClicks
  /\ \E src \in RandomSources : Commit(startGame(World("retry"), src))
  /\ clicks' = clicks + 1
  /\ UNCHANGED <<now, ticks, cameraActive, submitPending>>
  /\ UNCHANGED board

\* the exit button of the HUD (shown in PLAYING and LEVEL_UP)
ClickExit ==
  /\ game.status \in {"PLAYING", "LEVEL_UP"} /\ clicks < MaxClicks
  /\ Commit(resetToStandby(World("exit")))
  /\ clicks' = clicks + 1
  /\ UNCHANGED <<now, ticks, cameraActive, submitPending>>
  /\ UNCHANGED board

\* handleSubmit: the form of the GAME_OVER dialog; submitScore calls saveScore
\* with the player's name and the score and level of that moment, and awaits it ...
SubmitScore ==
  /\ game.status = "GAME_OVER" /\ ~submitPending /\ clicks < MaxClicks
  /\ submitPending' = TRUE
  /\ \E playerName \in PlayerNames : saving' = <<playerName, game.score, game.level>>
  /\ Commit(World("submit"))
  /\ clicks' = clicks + 1
  /\ UNCHANGED <<now, ticks, cameraActive, scores, leaderboard>>

\* ... the store has answered: the record is in, refreshLeaderboard reads the
\* five best, and handleSubmit calls resetToStandby
SubmitDone ==
  /\ submitPending
  /\ submitPending' = FALSE
  /\ scores' = saveScore(scores, saving[1], saving[2], saving[3], now)
  /\ leaderboard' = getTopScores(saveScore(scores, saving[1], saving[2], saving[3], now), 5)
  /\ saving' = <<>>
  /\ Commit(resetToStandby(World("submitDone")))
  /\ UNCHANGED <<now, ticks, clicks, cameraActive>>

\* the setTimeout callback of triggerLevelUp, once its delay has passed
LevelUpTimer ==
  /\ timers # <<>> /\ Head(timers) <= now
  /\ \E src \in RandomSources :
       Commit(nextLevel([World("timer") EXCEPT !.timers = Tail(@)], src))
  /\ UNCHANGED <<now, ticks, clicks, cameraActive, submitPending>>
  /\ UNCHANGED board

\* predictWebcam: one frame of the loop
Tick ==
  /\ looping /\ ticks < MaxTicks
  /\ \E allLandmarks \in Frames, k \in Steps, in \in TickInputs :
       /\ now' = now + k * FRAME
       /\ Commit(updateAndDrawGame(World("tick"), allLandmarks, now + k * FRAME, in))
  /\ ticks' = ticks + 1
  /\ UNCHANGED <<clicks, cameraActive, submitPending>>
  /\ UNCHANGED board

\* predictWebcam on a malformed landmark frame; the model does not follow a
\* session past a NaN position
TickMalformed ==
  /\ looping /\ ticks < MaxTicks /\ ev.nan = {}
  /\ \E bad \in {"short", "nan"}, k \in Steps, in \in TickInputs :
       /\ now' = now + k * FRAME
       /\ Commit(IF bad = "short"
                 THEN ShortHandTick(World("tick"), now + k * FRAME)
                 ELSE NaNHandTick(World("tick"), now + k * FRAME, in))
  /\ ticks' = ticks + 1
  /\ UNCHANGED <<clicks, cameraActive, submitPending>>
  /\ UNCHANGED board

Next ==
  \/ StartCamera
  \/ ClickStart
  \/ ClickRetry
  \/ ClickExit
  \/ SubmitScore
  \/ SubmitDone
  \/ LevelUpTimer
  \/ Tick

Spec == Init /\ [][Next]_vars

\* the delay of the oldest pending timer runs out, whether frames arrive or not
TimerDue ==
  /\ timers # <<>> /\ now < Head(timers)
  /\ now' = Head(timers)
  /\ UNCHANGED <<game, charIdCounter, bombIdCounter, dropIdCounter, timers, ticks, clicks,
                 cameraActive, submitPending, looping, aiActs, ev>>
  /\ UNCHANGED board

\* predictWebcam: one frame of the loop, for a player who pinches at the
\* characters, throws bombs or shows no hand, with every random trial failing
TickAlone ==
  /\ looping /\ ticks < MaxTicks
  /\ \E allLandmarks \in {<<>>, <<PinchHand(Anchor[1], Anchor[2], 55)>>,
                           <<FistHand(BombSpot[1], BombSpot[2])>>},
        k \in Steps :
       /\ now' = now + k * FRAME
       /\ Commit(updateAndDrawGame(World("tick"), allLandmarks, now + k * FRAME,
                                   [src |-> "half", ambient |-> FALSE, drop |-> FALSE,
                                    ai |-> [i \in 1..Len(game.characters) |-> "none"]]))
  /\ ticks' = ticks + 1
  /\ UNCHANGED <<clicks, cameraActive, submitPending>>
  /\ UNCHANGED board

\* the engine left to itself: frames and timers, no button and no submission
NextAlone == TickAlone \/ TimerDue \/ LevelUpTimer

\* a session under way, left to itself; timers run out and their callbacks run
\* the session is under way at level 2, one point short of the level's score
InitAlone == Init /\ game.status = "PLAYING" /\ game.level = 2

SpecAlone ==
  /\ InitAlone
  /\ [][NextAlone]_vars
  /\ WF_vars(TimerDue) /\ WF_vars(LevelUpTimer)

\* A session on the level-up screen of level lvl, its delay run out: 10 points
\* per level made, the last character of the wave still running.
LevelUpGame(lvl) ==
  [characters |-> <<MidChar(3 * lvl, 300, 98)>>,
   bombs |-> <<>>, supplyDrops |-> <<>>, level |-> lvl, score |-> 10 * lvl, levelScore |-> 10,
   bombsRemaining |-> 2, lastTime |-> 9000 * FRAME, lastBombTime |-> 2000 * FRAME,
   status |-> "LEVEL_UP", grabbedCharId |-> -1, isPinching |-> FALSE,
   hasDropSpawned |-> lvl >= 3, levelUpMessage |-> MessagePool(lvl)]

InitLevelUp ==
  \E lvl \in 1..MaxLevel - 1 :
    /\ game = LevelUpGame(lvl)
    /\ charIdCounter = 3 * lvl + 1
    /\ bombIdCounter = 3
    /\ dropIdCounter = 0
    /\ timers = <<9000 * FRAME>>
    /\ now = 9000 * FRAME
    /\ cameraActive = TRUE
    /\ ev = NoEvent("LEVEL_UP")

InitSpawn ==
  /\ InitLevelUp \/ InitStandby
  /\ aiActs = <<>>
  /\ looping = cameraActive
  /\ ticks = 0
  /\ clicks = 0
  /\ submitPending = FALSE
  /\ EmptyBoard

\* the random streams of a wave: every draw least, middle, alternating, greatest
SpawnSources == {"zero", "half", "alt", "high"}

\* the start button, with any stream of random draws
StartWave ==
  /\ cameraActive /\ game.status \in {"IDLE", "STANDBY"} /\ clicks < MaxClicks
  /\ \E src \in SpawnSources : Commit(startGame(World("startGame"), src))
  /\ clicks' = clicks + 1
  /\ UNCHANGED <<now, ticks, cameraActive, submitPending>>
  /\ UNCHANGED board

\* the setTimeout callback of triggerLevelUp, with any stream of random draws
NextWave ==
  /\ timers # <<>> /\ Head(timers) <= now
  /\ \E src \in SpawnSources :
       Commit(nextLevel([World("timer") EXCEPT !.timers = Tail(@)], src))
  /\ UNCHANGED <<now, ticks, clicks, cameraActive, submitPending>>
  /\ UNCHANGED board

\* the waves by themselves: every level start from level 1 to MaxLevel
SpecSpawn == InitSpawn /\ [][StartWave \/ NextWave]_vars

\* saveScore called by itself, with any name, score and level
SavedNames == {"A", "B"}
SavedScores == {7, 42}
SavedLevels == {3}

SaveScore ==
  /\ Len(scores) < MaxSaves
  /\ \E name \in SavedNames, score \in SavedScores, level \in SavedLevels :
       scores' = saveScore(scores, name, score, level, now)
  /\ UNCHANGED <<game, charIdCounter, bombIdCounter, dropIdCounter, timers, now, ticks, clicks,
                 cameraActive, submitPending, looping, aiActs, ev, leaderboard, saving>>

\* refreshLeaderboard: the list shown becomes the five best of the store
RefreshLeaderboard ==
  /\ leaderboard' = getTopScores(scores, 5)
  /\ UNCHANGED <<game, charIdCounter, bombIdCounter, dropIdCounter, timers, now, ticks, clicks,
                 cameraActive, submitPending, looping, aiActs, ev, scores, saving>>

\* the leaderboard by itself: any sequence of saves, read at any moment
InitBoard == Init /\ game.status = "IDLE"

SpecBoard == InitBoard /\ [][SaveScore \/ RefreshLeaderboard]_vars

\* The level-up screen of level 3, 50 frames after the grab that made the tenth
\* point of the level: the character of that grab is still held at the pinch
\* point; the one the player let go at the right edge just before is still
\* falling, half a pixel short of canvas width + 20; a bomb thrown earlier hangs
\* over a running character; the supply trial of the level has not succeeded yet.
PauseGame ==
  [characters |-> <<[MidChar(5, Anchor[1], 112) EXCEPT !.y = Anchor[2] * S, !.state = "GRABBED"],
                    [MidChar(6, 1299, 112) EXCEPT !.x = 1299 * S + 50, !.y = 300 * S,
                                                  !.vy = 200, !.state = "FALLING"],
                    MidChar(7, 600, 112)>>,
   bombs |-> <<[id |-> 0, x |-> 600 * S, y |-> 500 * S, vy |-> 900, active |-> TRUE]>>,
   supplyDrops |-> <<>>,
   level |-> 3, score |-> 30, levelScore |-> 10, bombsRemaining |-> MAX_BOMBS - 1,
   lastTime |-> 9000 * FRAME, lastBombTime |-> 8900 * FRAME, status |-> "LEVEL_UP",
   grabbedCharId |-> 5, isPinching |-> TRUE, hasDropSpawned |-> FALSE,
   levelUpMessage |-> "easy"]

InitPause ==
  /\ game = PauseGame
  /\ charIdCounter = 8
  /\ bombIdCounter = 1
  /\ dropIdCounter = 0
  /\ timers = <<8950 * FRAME + LEVEL_UP_DELAY>>
  /\ now = 9000 * FRAME
  /\ cameraActive = TRUE
  /\ ev = NoEvent("LEVEL_UP")

\* the sessions that are on the level-up screen, or one point short of it
InitLevelUpScreen ==
  /\ InitPause \/ InitMidGame
  /\ aiActs = <<>>
  /\ looping = cameraActive
  /\ ticks = 0
  /\ clicks = 0
  /\ submitPending = FALSE
  /\ EmptyBoard

\* the level-up screen: frames and the timer callback, no button
SpecPause == InitLevelUpScreen /\ [][Tick \/ LevelUpTimer]_vars

\* A session in level 2 with 3 of its 10 points made: the first character of
\* the wave is in the last frame of its trick retreat, 40 px from the left edge,
\* the other two have been dragged back behind it.
TrickGame ==
  [characters |-> <<[MidChar(2, 40, 98) EXCEPT !.vx = -250, !.isTricking = TRUE,
                                                !.trickTimer = 1],
                    MidChar(3, -200, 98), MidChar(4, -280, 98)>>,
   bombs |-> <<>>, supplyDrops |-> <<>>, level |-> 2, score |-> 13, levelScore |-> 3,
   bombsRemaining |-> 2, lastTime |-> 3000 * FRAME, lastBombTime |-> 2000 * FRAME,
   status |-> "PLAYING", grabbedCharId |-> -1, isPinching |-> FALSE,
   hasDropSpawned |-> FALSE, levelUpMessage |-> "easy"]

InitTrick ==
  /\ game = TrickGame
  /\ charIdCounter = 5
  /\ bombIdCounter = 1
  /\ dropIdCounter = 0
  /\ timers = <<>>
  /\ now = 3000 * FRAME
  /\ cameraActive = TRUE
  /\ ev = NoEvent("PLAYING")
  /\ aiActs = <<>>
  /\ looping = cameraActive
  /\ ticks = 0
  /\ clicks = 0
  /\ submitPending = FALSE
  /\ EmptyBoard

\* the frame loop of that session
SpecTrick == InitTrick /\ [][Tick]_vars

\* A session in level 2 with 3 of its 10 points made: the first character of
\* the wave runs 220 px short of the right edge, the second was let go 280 px
\* above the ground line, the third was knocked up by a bomb while it was in
\* its trick retreat and is coming down again.
FallGame ==
  [characters |-> <<MidChar(2, 1100, 112),
                    [MidChar(3, 20, 98) EXCEPT !.y = 300 * S, !.state = "FALLING"],
                    [MidChar(4, 100, 98) EXCEPT !.y = 520 * S, !.vx = -250, !.vy = 200,
                                                !.state = "FALLING", !.isTricking = TRUE,
                                                !.trickTimer = 30]>>,
   bombs |-> <<>>, supplyDrops |-> <<>>, level |-> 2, score |-> 13, levelScore |-> 3,
   bombsRemaining |-> 2, lastTime |-> 3000 * FRAME, lastBombTime |-> 2000 * FRAME,
   status |-> "PLAYING", grabbedCharId |-> -1, isPinching |-> FALSE,
   hasDropSpawned |-> FALSE, levelUpMessage |-> "easy"]

InitFall ==
  /\ game = FallGame
  /\ charIdCounter = 5
  /\ bombIdCounter = 1
  /\ dropIdCounter = 0
  /\ timers = <<>>
  /\ now = 3000 * FRAME
  /\ cameraActive = TRUE
  /\ ev = NoEvent("PLAYING")
  /\ aiActs = <<>>
  /\ looping = cameraActive
  /\ ticks = 0
  /\ clicks = 0
  /\ submitPending = FALSE
  /\ EmptyBoard

\* the frames of a slow machine come a third or two thirds of a second apart
FallSteps == {20, 40}

\* predictWebcam while the session is PLAYING, with no hand in the picture; the
\* first character may start a jump in any tick
TickFall ==
  /\ looping /\ game.status = "PLAYING"
  /\ \E k \in FallSteps, roll \in {"none", "jump"} :
       /\ now' = now + k * FRAME
       /\ Commit(updateAndDrawGame(World("tick"), <<>>, now + k * FRAME,
                                   [src |-> "half", ambient |-> FALSE, drop |-> FALSE,
                                    ai |-> [i \in 1..Len(game.characters) |->
                                              IF i = 1 THEN roll ELSE "none"]]))
  /\ ticks' = ticks + 1
  /\ UNCHANGED <<clicks, cameraActive, submitPending>>
  /\ UNCHANGED board

\* the frame loop goes on for as long as the session is PLAYING
SpecFall == InitFall /\ [][TickFall]_vars /\ WF_vars(TickFall)

\* the landmark source may also deliver malformed frames
NextMalformed == Next \/ TickMalformed

SpecMalformed == Init /\ [][NextMalformed]_vars

\* ================================================================ claims
IsTick == ticks' = ticks + 1

\* the latch as the specification words it
Latch(was, d2, five) ==
  IF was THEN ~(d2 > 100 * 100 \/ five) ELSE d2 < 60 * 60 /\ ~five

\* isPinching after each of a sequence of frames with the given thumb-index distances
RECURSIVE LatchRun(_, _)
LatchRun(ds, pinching) ==
  IF ds = <<>> THEN <<>>
  ELSE LET gs == Gesture(<<PinchHand(Anchor[1], Anchor[2], Head(ds))>>, -1)
           p == Hysteresis(pinching, gs.pinchDist2, gs.isFiveFingerPinch)
       IN <<p>> \o LatchRun(Tail(ds), p)

\* C1 as stated: every tick that does not begin in GAME_OVER leaves isPinching at
\* the value of the two-threshold latch (set below 60 px without a bomb gesture,
\* cleared above 100 px or by a bomb gesture, kept otherwise).
C1_Original ==
  [][IsTick /\ game.status # "GAME_OVER"
       => game'.isPinching = Latch(game.isPinching, ev'.dist2, ev'.five)]_vars

\* C1 amended: the same, except that the STANDBY tick whose pinch starts the game
\* ends with isPinching false (startGame clears it after the latch update); and
\* the distances 70, 55, 90, 110 from false give false, true, true, false.
C1_Latch ==
  /\ LatchRun(<<70, 55, 90, 110>>, FALSE) = <<FALSE, TRUE, TRUE, FALSE>>
  /\ [][IsTick /\ game.status # "GAME_OVER"
          => game'.isPinching =
               IF game.status = "STANDBY" /\ game'.status = "PLAYING" THEN FALSE
               ELSE Latch(game.isPinching, ev'.dist2, ev'.five)]_vars

\* a pinch held at 90 px, inside the hysteresis band, in PLAYING
C1_Witness ==
  ev.op = "tick" /\ ev.start = "PLAYING" /\ game.isPinching /\ ev.dist2 = 90 * 90

\* C2: 0 <= bombsRemaining <= MAX_BOMBS in every reachable state.
C2_AmmoBound == game.bombsRemaining >= 0 /\ game.bombsRemaining <= 5

\* a supply drop collected with the ammunition already at the cap
C2_Witness == ev.op = "tick" /\ ev.picked = 1 /\ game.bombsRemaining = MAX_BOMBS

\* C3: at most one character is GRABBED in every reachable state, and a character
\* becomes GRABBED only in a step that starts with no character held and with
\* that character live and RUNNING or JUMPING.
GrabbedSet(chars) == {i \in 1..Len(chars) : chars[i].state = "GRABBED"}

BecomesGrabbedOnlyFromFree ==
  \A j \in GrabbedSet(game'.characters) :
    LET k == FindById(game.characters, game'.characters[j].id, 1)
    IN k = 0
       \/ game.characters[k].state = "GRABBED"
       \/ /\ game.grabbedCharId = -1
          /\ ~game.characters[k].isDead
          /\ game.characters[k].state \in {"RUNNING", "JUMPING"}

C3_OneGrabbed ==
  /\ [](Cardinality(GrabbedSet(game.characters)) <= 1)
  /\ [][/\ BecomesGrabbedOnlyFromFree
        /\ \A j \in GrabbedSet(game'.characters) :
             FindById(game.characters, game'.characters[j].id, 1) # 0]_vars

\* a character has just been acquired
C3_Witness ==
  /\ ev.op = "tick" /\ ev.grabs = 1
  /\ \E i \in 1..Len(game.characters) :
       game.characters[i].state = "GRABBED" /\ game.characters[i].id = game.grabbedCharId

\* the statuses the last handler went through, from the one it started in
StatusPath == <<ev.start>> \o ev.trace

ChangesWithin(edges) ==
  \A i \in 1..Len(StatusPath) - 1 :
    StatusPath[i] # StatusPath[i + 1] => <<StatusPath[i], StatusPath[i + 1]>> \in edges

SpecEdges ==
  {<<"IDLE", "STANDBY">>, <<"STANDBY", "PLAYING">>, <<"PLAYING", "LEVEL_UP">>,
   <<"LEVEL_UP", "PLAYING">>, <<"PLAYING", "GAME_OVER">>, <<"GAME_OVER", "STANDBY">>}

\* C4 as stated: every change of status follows one of the six edges
\* IDLE->STANDBY, STANDBY->PLAYING, PLAYING->LEVEL_UP, LEVEL_UP->PLAYING,
\* PLAYING->GAME_OVER, GAME_OVER->STANDBY.
C4_Original == ChangesWithin(SpecEdges)

\* C4 amended: every change of status follows one of the six edges or one of
\* GAME_OVER->PLAYING (retry button, level-up timer), PLAYING->STANDBY and
\* LEVEL_UP->STANDBY (exit button, end of a submission), LEVEL_UP->GAME_OVER
\* (a character escapes later in the tick that reached the level's score).
C4_Edges ==
  ChangesWithin(SpecEdges \cup {<<"GAME_OVER", "PLAYING">>, <<"PLAYING", "STANDBY">>,
                                <<"LEVEL_UP", "STANDBY">>, <<"LEVEL_UP", "GAME_OVER">>})

\* one tick that goes PLAYING -> LEVEL_UP -> GAME_OVER
C4_Witness == ev.op = "tick" /\ StatusPath = <<"PLAYING", "LEVEL_UP", "GAME_OVER">>

\* C5 as stated: from GAME_OVER, a step that is not an external start or reset
\* call (retry button, end of a submission) leaves status GAME_OVER and score and
\* level unchanged.
C5_Frozen ==
  [][game.status = "GAME_OVER" /\ ev'.op \notin {"retry", "startGame", "submitDone", "exit"}
       => /\ game'.status = "GAME_OVER"
          /\ game'.score = game.score
          /\ game'.level = game.level]_vars

\* C6 as stated: every step from STANDBY to PLAYING ends with level 1, score 0,
\* levelScore 0, nothing grabbed, no bomb in flight, full ammunition and a freshly
\* spawned level-1 wave.
C6_FreshStart ==
  [][game.status = "STANDBY" /\ game'.status = "PLAYING"
       => /\ game'.level = 1 /\ game'.score = 0 /\ game'.levelScore = 0
          /\ game'.grabbedCharId = -1
          /\ game'.bombs = <<>>
          /\ game'.bombsRemaining = MAX_BOMBS
          /\ \E src \in RandomSources, c \in {charIdCounter, charIdCounter + 1} :
               game'.characters = spawnCharacters(1, c, src)]_vars

\* C7 as stated: a tick in which status becomes LEVEL_UP adds no point after that
\* moment.
C7_NoLatePoints ==
  ev.op = "tick" /\ (\E i \in 1..Len(ev.trace) : ev.trace[i] = "LEVEL_UP") => ev.late = 0

\* C8: every step that changes level ends with levelScore 0, and a step that
\* raises level ends in PLAYING, so that the first tick of the level starts from 0.
C8_LevelScoreReset ==
  [][game'.level # game.level
       => /\ game'.levelScore = 0
          /\ game'.level > game.level => game'.status = "PLAYING"]_vars

\* level 3 entered from a level score of 11: the 19 points of the session and
\* the two points of the tick that reached the level's score
C8_Witness ==
  ev.op = "timer" /\ game.level = 3 /\ game.score = 21 /\ game.levelScore = 0

GameOvers == {i \in 1..Len(ev.trace) : ev.trace[i] = "GAME_OVER"}

\* C9: after a tick that began in PLAYING, a live character beyond canvas width
\* + 20 means the status is GAME_OVER; and a tick that sets GAME_OVER sets it once,
\* as its last change of status, awards no point and updates no character after it.
C9_BoundaryFailure ==
  ev.op = "tick" =>
    /\ ev.start = "PLAYING"
         /\ (\E i \in 1..Len(game.characters) :
               ~game.characters[i].isDead /\ game.characters[i].x > (1280 + 20) * S)
       => game.status = "GAME_OVER" /\ GameOvers # {}
    /\ GameOvers # {}
       => /\ GameOvers = {Len(ev.trace)}
          /\ game.status = "GAME_OVER"
          /\ ev.over = 0
          /\ ev.moved = 0

\* the second character of three escapes and the one after it stays where it was
C9_Witness ==
  /\ ev.op = "tick" /\ ev.start = "PLAYING" /\ game.status = "GAME_OVER"
  /\ Len(game.characters) = 3
  /\ game.characters[2].x > (1280 + 20) * S
  /\ game.characters[3].x = 0

\* C10: a bomb is created only by a tick that began in PLAYING with the bomb
\* gesture, at least one bomb left and more than 500 ms since the last throw; the
\* creation takes one bomb from the ammunition and records the time of the tick;
\* the recorded time changes only when a bomb is created.
C10_BombCreation ==
  [][/\ bombIdCounter' # bombIdCounter
          => /\ IsTick /\ ev'.thrown = 1
             /\ bombIdCounter' = bombIdCounter + 1
             /\ game.status = "PLAYING"
             /\ ev'.five
             /\ game.bombsRemaining >= 1
             /\ now' - game.lastBombTime > 500 * S
             /\ game'.bombsRemaining = game.bombsRemaining - 1
             /\ game'.lastBombTime = now'
     /\ game'.lastBombTime # game.lastBombTime => bombIdCounter' # bombIdCounter]_vars

\* the last bomb of the ammunition has just been thrown
C10_Witness == ev.op = "tick" /\ ev.thrown = 1 /\ game.bombsRemaining = 0

InPlay == game.status \in {"PLAYING", "LEVEL_UP"}

\* C11: a tick of a running session adds one point to score and to levelScore
\* for each bomb that hit and each character acquired, and nothing else; every
\* bomb that hit has knocked one character and has left the list, as has every
\* bomb that passed the ground line; no bomb of the list is at or below that line.
C11_BombScoresOnce ==
  [][IsTick /\ InPlay
       => /\ game'.score - game.score = ev'.hits + ev'.grabs
          /\ game'.levelScore - game.levelScore = ev'.hits + ev'.grabs
          /\ Len(ev'.hitlog) = ev'.hits
          /\ Len(game'.bombs) = Len(game.bombs) + ev'.thrown - ev'.hits - ev'.landed
          /\ \A i \in 1..Len(game'.bombs) : game'.bombs[i].y < (720 - 80 + 15) * S]_vars

\* a bomb has hit: one point, and the list is empty again
C11_Witness == ev.op = "tick" /\ ev.hits = 1 /\ ev.pts = 1 /\ game.bombs = <<>>

\* a bomb has passed the ground line without a hit
C11_Landed == ev.op = "tick" /\ ev.landed = 1 /\ ev.pts = 0

\* C12 as stated: the horizontal velocity of a character hit by a bomb is its
\* velocity before the hit minus 150.
C12_Original ==
  \A i \in 1..Len(ev.hitlog) : ev.hitlog[i][2].vx = ev.hitlog[i][1].vx - 150 * S

\* C12 amended: the horizontal position of a character hit by a bomb is its
\* position before the hit minus 150 px, and its horizontal velocity is unchanged.
C12_KnockBack ==
  \A i \in 1..Len(ev.hitlog) :
    /\ ev.hitlog[i][2].x = ev.hitlog[i][1].x - 150 * S
    /\ ev.hitlog[i][2].vx = ev.hitlog[i][1].vx

\* a character on the ground has been hit
C12_Witness ==
  /\ ev.op = "tick" /\ Len(ev.hitlog) = 1
  /\ ev.hitlog[1][1].state = "RUNNING" /\ ev.hitlog[1][2].state = "FALLING"

\* the character with this id in the population, <<>> if there is none
CharOf(chars, id) ==
  LET k == FindById(chars, id, 1) IN IF k = 0 THEN <<>> ELSE chars[k]

\* C13: a tick that acquires a character leaves it GRABBED and locked, with one
\* point for it; a tick of a running session that starts with a character held
\* and finds isPinching false lets that character go: the release makes it
\* FALLING with vx = originalSpeed and vy = 0 and clears the lock, and at the end
\* of the tick its vx is still its originalSpeed.
C13_GrabRelease ==
  [][IsTick /\ InPlay
       => /\ ev'.grabs >= 1
             => /\ ev'.grabs = 1
                /\ game.grabbedCharId = -1 /\ game'.grabbedCharId # -1
                /\ CharOf(game'.characters, game'.grabbedCharId) # <<>>
                /\ CharOf(game'.characters, game'.grabbedCharId).state = "GRABBED"
                /\ game'.score = game.score + 1 + ev'.hits
          /\ game.grabbedCharId # -1 /\ ~game'.isPinching
             => /\ game'.grabbedCharId = -1
                /\ Len(ev'.rel) = 1
                /\ ev'.rel[1].id = game.grabbedCharId
                /\ ev'.rel[1].state = "FALLING"
                /\ ev'.rel[1].vx = ev'.rel[1].originalSpeed
                /\ ev'.rel[1].vy = 0
                /\ CharOf(game'.characters, game.grabbedCharId).vx = ev'.rel[1].originalSpeed
          /\ ev'.rel # <<>> => game.grabbedCharId # -1 /\ ~game'.isPinching]_vars

\* a held character has been let go and is falling
C13_Witness ==
  /\ ev.op = "tick" /\ Len(ev.rel) = 1 /\ game.grabbedCharId = -1
  /\ CharOf(game.characters, ev.rel[1].id) # <<>>
  /\ CharOf(game.characters, ev.rel[1].id).state = "FALLING"

\* the candidates of a search: live, RUNNING or JUMPING, nearer than 120 px
Within120(chars, p, i) ==
  /\ Abs(p[1] - chars[i].x) < 120 * S /\ Abs(p[2] - chars[i].y) < 120 * S
  /\ (p[1] - chars[i].x) * (p[1] - chars[i].x) + (p[2] - chars[i].y) * (p[2] - chars[i].y)
       < 120 * S * 120 * S

Dist2(chars, p, i) ==
  (p[1] - chars[i].x) * (p[1] - chars[i].x) + (p[2] - chars[i].y) * (p[2] - chars[i].y)

Candidates(chars, p) ==
  {i \in 1..Len(chars) : /\ ~chars[i].isDead
                         /\ chars[i].state \in {"RUNNING", "JUMPING"}
                         /\ Within120(chars, p, i)}

\* the id the specification selects: the first of the nearest candidates
Nearest(chars, p) ==
  LET cs == Candidates(chars, p)
      best == {i \in cs : \A j \in cs : Dist2(chars, p, i) <= Dist2(chars, p, j)}
  IN IF cs = {} THEN -1
     ELSE chars[CHOOSE i \in best : \A j \in best : i <= j].id

\* C14: a tick that begins in PLAYING with no character held and ends the latch
\* update pinching searches the population once; the character found is the first
\* of the nearest live RUNNING or JUMPING characters nearer than 120 px to the
\* pinch point, it is the one that becomes GRABBED, and nothing is grabbed when
\* there is no such character.
C14_NearestTarget ==
  [][IsTick /\ game.status = "PLAYING" /\ game.grabbedCharId = -1 /\ game'.isPinching
       => /\ Len(ev'.scan) = 1
          /\ ev'.scan[1][3] = Nearest(ev'.scan[1][1], ev'.scan[1][2])
          /\ game'.grabbedCharId = ev'.scan[1][3]
          /\ ev'.grabs = IF ev'.scan[1][3] = -1 THEN 0 ELSE 1
          /\ ev'.scan[1][3] # -1
             => CharOf(ev'.scan[1][1], ev'.scan[1][3]).state \in {"RUNNING", "JUMPING"}]_vars

\* two candidates at the same distance, and the first one was taken
C14_Witness ==
  /\ ev.op = "tick" /\ Len(ev.scan) = 1 /\ ev.grabs = 1
  /\ \E i, j \in Candidates(ev.scan[1][1], ev.scan[1][2]) :
       /\ i < j
       /\ Dist2(ev.scan[1][1], ev.scan[1][2], i) = Dist2(ev.scan[1][1], ev.scan[1][2], j)
       /\ ev.scan[1][1][i].id = ev.scan[1][3]

\* C15 as stated: no character starts a jump or a trick retreat more than once.
C15_OncePerLife ==
  \A i, j \in 1..Len(aiActs) : i # j => aiActs[i] # aiActs[j]

\* C16: a tick that begins in STANDBY and does not start the game leaves score,
\* levelScore, level, bombsRemaining, bombs and grabbedCharId as they were and the
\* status STANDBY, and leaves no character at or beyond canvas width + 100.
C16_StandbyCosmetic ==
  [][IsTick /\ game.status = "STANDBY" /\ game'.status # "PLAYING"
       => /\ game'.status = "STANDBY"
          /\ game'.score = game.score /\ game'.levelScore = game.levelScore
          /\ game'.level = game.level
          /\ game'.bombsRemaining = game.bombsRemaining
          /\ game'.bombs = game.bombs
          /\ game'.grabbedCharId = game.grabbedCharId
          /\ \A i \in 1..Len(game'.characters) : game'.characters[i].x < (1280 + 100) * S
          /\ Len(game'.characters) <= Len(game.characters) + 1]_vars

\* a passer-by is beyond canvas width + 20 and the status is still STANDBY
C16_Witness ==
  /\ ev.op = "tick" /\ ev.start = "STANDBY" /\ game.status = "STANDBY"
  /\ \E i \in 1..Len(game.characters) : game.characters[i].x > (1280 + 20) * S

\* a passer-by has left the population in STANDBY
C16_Removed ==
  ev.op = "tick" /\ ev.start = "STANDBY" /\ game.status = "STANDBY"
  /\ game.characters = <<>> /\ game.score = 19

LevelStart == \E i \in 1..Len(ev'.trace) : ev'.trace[i] = "PLAYING"

\* C17: supplyDrops never holds more than one element; a supply drop is created
\* only by a tick that begins in PLAYING at level 3 or more with hasDropSpawned
\* false, and the creation sets hasDropSpawned; hasDropSpawned is cleared only by
\* a level start (startGame or nextLevel). So there is at most one creation
\* between two level starts.
C17_OneDropPerLevel ==
  /\ [](Len(game.supplyDrops) <= 1)
  /\ [][/\ dropIdCounter' # dropIdCounter
             => /\ IsTick /\ dropIdCounter' = dropIdCounter + 1
                /\ game.status = "PLAYING" /\ game.level >= 3
                /\ ~game.hasDropSpawned /\ game'.hasDropSpawned
        /\ game.hasDropSpawned /\ ~game'.hasDropSpawned => LevelStart]_vars

\* a supply drop has been created in the level 3 that followed level 2
C17_Witness ==
  /\ ev.op = "tick" /\ game.level = 3 /\ dropIdCounter = 1 /\ game.score < 23
  /\ Len(game.supplyDrops) = 1 /\ game.hasDropSpawned

\* C18 as stated: after a tick that threw, the next frame of the loop is
\* requested.
C18_LoopContinues == ev.threw => looping

\* C19 as stated: a tick on a malformed landmark frame raises no error, ends
\* with isPinching false and leaves no position NaN.
C19_MalformedAsNoHand ==
  ev.op = "tick" /\ ev.bad # "none" /\ ev.start # "GAME_OVER"
    => ~ev.threw /\ ~game.isPinching /\ ev.nan = {}

\* C19, its part on NaN frames alone.
C19_NaNFrame ==
  ev.op = "tick" /\ ev.bad = "nan" /\ ev.start # "GAME_OVER"
    => ~game.isPinching /\ ev.nan = {}

\* a tick has just set the status to LEVEL_UP at level lvl
EnteredLevelUp(lvl) ==
  /\ ev.op = "tick" /\ game.level = lvl
  /\ \E i \in 1..Len(ev.trace) : ev.trace[i] = "LEVEL_UP"

\* C20: with the engine left to itself (no start or reset call) and the timer
\* firing, whenever a tick sets the status to LEVEL_UP at some level, the status
\* is eventually PLAYING at the next level.
C20_AutoAdvance ==
  \A lvl \in 2..3 :
    EnteredLevelUp(lvl) ~> (game.status = "PLAYING" /\ game.level = lvl + 1)

\* the timer has taken the level-up screen of level 2 to level 3
C20_Witness ==
  ev.op = "timer" /\ ev.start = "LEVEL_UP" /\ game.status = "PLAYING" /\ game.level = 3

\* n^13 lies in [lo^10, (lo + 1)^10): lo = floor(n^1.3)
IsFloorPow13(n, lo) ==
  /\ BigLeq(IPow(lo, 10), IPow(n, 13))
  /\ ~BigLeq(IPow(lo + 1, 10), IPow(n, 13))

\* count = min(25, floor(2 + (lvl - 1)^1.3))
IsSpecifiedCount(lvl, count) ==
  IF count < 25 THEN count >= 2 /\ IsFloorPow13(lvl - 1, count - 2)
  ELSE count = 25 /\ BigLeq(IPow(23, 10), IPow(lvl - 1, 13))

Descending(list) ==
  \A i \in 1..Len(list) - 1 : list[i].score >= list[i + 1].score

\* list holds the n best records of the store: n distinct stored records, and no
\* other stored record has a greater score than one of them
BestOf(list, store, n) ==
  /\ Len(list) = n
  /\ \A i \in 1..n : \E j \in 1..Len(store) : list[i] = store[j]
  /\ \A i, k \in 1..n : i # k => list[i] # list[k]
  /\ \A j \in 1..Len(store) :
       (\A i \in 1..n : list[i] # store[j])
         => \A i \in 1..n : store[j].score <= list[i].score

\* C22: whatever was saved, getTopScores(limit) returns at most limit entries, in
\* the order of non-increasing score, and they are the limit highest-scoring
\* stored entries (all of them when fewer are stored).
C22_TopScores ==
  \A limit \in 0..7 :
    LET list == getTopScores(scores, limit)
    IN /\ Len(list) <= limit
       /\ Descending(list)
       /\ BestOf(list, scores, IF Len(scores) < limit THEN Len(scores) ELSE limit)

\* the list shown is the five best of six records and leaves a lower score out
C22_Witness ==
  /\ Len(scores) = 6 /\ Len(leaderboard) = 5
  /\ leaderboard = getTopScores(scores, 5)
  /\ leaderboard[1].score > leaderboard[5].score
  /\ \E j \in 1..6 : \A i \in 1..5 : leaderboard[i] # scores[j]

\* the record stored last
LastSaved == scores[Len(scores)]

\* C23 as stated: after saveScore(n, s, l), getTopScores(5) holds an entry with
\* name n, score s and level l.
C23_Original ==
  scores # <<>>
    => \E i \in 1..Len(getTopScores(scores, 5)) :
         /\ getTopScores(scores, 5)[i].name = LastSaved.name
         /\ getTopScores(scores, 5)[i].score = LastSaved.score
         /\ getTopScores(scores, 5)[i].level = LastSaved.level

\* C23 amended: after saveScore(n, s, l), getTopScores(5) is in the order of
\* non-increasing score and holds the record just stored if and only if fewer
\* than five stored records have a score greater than s.
C23_RoundTrip ==
  scores # <<>>
    => LET list == getTopScores(scores, 5)
       IN /\ Descending(list)
          /\ (\E i \in 1..Len(list) : list[i] = LastSaved)
               <=> Cardinality({j \in 1..Len(scores) : scores[j].score > LastSaved.score}) < 5

\* the sixth record ties with the five stored before it and is in the list
C23_Witness ==
  /\ Len(scores) = 6
  /\ \A j \in 1..6 : scores[j].score = 42
  /\ \E i \in 1..5 : getTopScores(scores, 5)[i] = LastSaved

\* C24 as stated: the level-up timer callback runs only while the status is
\* still LEVEL_UP, so it never raises the level or replaces the wave while the
\* status is PLAYING, STANDBY or GAME_OVER.
C24_TimerOnlyInLevelUp == ev.op = "timer" => ev.start = "LEVEL_UP"

\* C25: a step from LEVEL_UP to PLAYING leaves bombsRemaining and score as they
\* were; it raises level by 1, zeroes levelScore, replaces the wave by newly
\* created characters, empties bombs and supplyDrops, clears the grab and the
\* drop flag, and changes nothing else of the session state.
C25_LevelUpFrame ==
  [][game.status = "LEVEL_UP" /\ game'.status = "PLAYING"
       => /\ game'.bombsRemaining = game.bombsRemaining
          /\ game'.score = game.score
          /\ game' = [game EXCEPT !.level = @ + 1, !.levelScore = 0,
                                  !.characters = game'.characters,
                                  !.bombs = <<>>, !.supplyDrops = <<>>,
                                  !.grabbedCharId = -1, !.hasDropSpawned = FALSE,
                                  !.status = "PLAYING"]
          /\ \A i \in 1..Len(game'.characters) :
               game'.characters[i].id = charIdCounter + i - 1
          /\ charIdCounter' = charIdCounter + Len(game'.characters)]_vars

\* level 3 has begun with the one bomb of ammunition and the 20 points that
\* level 2 ended with
C25_Witness ==
  /\ ev.op = "timer" /\ ev.start = "LEVEL_UP" /\ game.status = "PLAYING"
  /\ game.level = 3 /\ game.bombsRemaining = 1 /\ game.score = 20

\* the ids of the GRABBED characters of a population
GrabbedIds(chars) == {chars[i].id : i \in GrabbedSet(chars)}

\* C26: a tick that begins with status LEVEL_UP leaves score and levelScore as
\* they were, creates no bomb and no supply drop, makes no character GRABBED and
\* does not end in GAME_OVER.
C26_LevelUpQuiet ==
  [][IsTick /\ game.status = "LEVEL_UP"
       => /\ game'.score = game.score /\ game'.levelScore = game.levelScore
          /\ ev'.pts = 0
          /\ bombIdCounter' = bombIdCounter /\ Len(game'.bombs) <= Len(game.bombs)
          /\ game'.bombsRemaining >= game.bombsRemaining
          /\ dropIdCounter' = dropIdCounter /\ Len(game'.supplyDrops) <= Len(game.supplyDrops)
          /\ GrabbedIds(game'.characters) \subseteq GrabbedIds(game.characters)
          /\ ev'.grabs = 0
          /\ game'.status # "GAME_OVER"]_vars

\* a tick of the level-up screen with the bomb gesture, ammunition and the
\* cooldown over, which leaves a character beyond canvas width + 20
C26_Witness ==
  /\ ev.op = "tick" /\ ev.start = "LEVEL_UP" /\ game.status = "LEVEL_UP"
  /\ ev.five /\ game.bombsRemaining > 0 /\ now - game.lastBombTime > BOMB_COOLDOWN
  /\ \E i \in 1..Len(game.characters) : game.characters[i].x > (1280 + 20) * S

\* C27 as stated: a tick that begins with status LEVEL_UP changes no character's
\* position, velocity or state.
C27_PhysicsPaused ==
  [][IsTick /\ game.status = "LEVEL_UP"
       => \A i \in 1..Len(game.characters) :
            /\ i <= Len(game'.characters)
            /\ game'.characters[i].x = game.characters[i].x
            /\ game'.characters[i].y = game.characters[i].y
            /\ game'.characters[i].vx = game.characters[i].vx
            /\ game'.characters[i].vy = game.characters[i].vy
            /\ game'.characters[i].state = game.characters[i].state]_vars

\* C28 as stated: a tick with no hand gives no pinch point and no bomb trigger,
\* ends with isPinching false whatever it was before, and ends with the character
\* that was held FALLING and grabbedCharId = -1.
C28_Original ==
  /\ \A g \in {-1, 5} :
       Gesture(<<>>, g).pinchPoint = NoPoint /\ ~Gesture(<<>>, g).isFiveFingerPinch
  /\ [][IsTick /\ ~ev'.hand
          => /\ ~ev'.five /\ ev'.thrown = 0
             /\ ~game'.isPinching
             /\ game.grabbedCharId # -1
                => /\ game'.grabbedCharId = -1
                   /\ CharOf(game'.characters, game.grabbedCharId).state = "FALLING"]_vars

\* C28 amended: a tick with no hand that does not begin in GAME_OVER gives no
\* pinch point and no bomb trigger, creates no bomb, searches no target, collects
\* no supply drop and ends with isPinching false whatever it was before; if a
\* character was held, the release block lets it go (FALLING, vx = originalSpeed,
\* vy = 0, grabbedCharId = -1), and at the end of the tick it is FALLING, or
\* RUNNING on the ground line if it landed in that tick.  A tick that begins in
\* GAME_OVER changes nothing.
C28_NoHand ==
  /\ \A g \in {-1, 5} :
       Gesture(<<>>, g).pinchPoint = NoPoint /\ ~Gesture(<<>>, g).isFiveFingerPinch
  /\ [][IsTick /\ ~ev'.hand
          => IF game.status = "GAME_OVER" THEN game' = game
             ELSE /\ ~ev'.five /\ ev'.thrown = 0 /\ ev'.scan = <<>> /\ ev'.picked = 0
                  /\ ~game'.isPinching
                  /\ game.grabbedCharId # -1 /\ game.status # "STANDBY"
                     => /\ game'.grabbedCharId = -1
                        /\ Len(ev'.rel) = 1
                        /\ ev'.rel[1].id = game.grabbedCharId
                        /\ ev'.rel[1].state = "FALLING"
                        /\ ev'.rel[1].vx = ev'.rel[1].originalSpeed /\ ev'.rel[1].vy = 0
                        /\ \/ CharOf(game'.characters, game.grabbedCharId).state = "FALLING"
                           \/ /\ CharOf(game'.characters, game.grabbedCharId).state = "RUNNING"
                              /\ CharOf(game'.characters, game.grabbedCharId).y = groundLine]_vars

\* the hand has gone while a character was held: the pinch is over and the
\* character has been let go
C28_Witness ==
  /\ ev.op = "tick" /\ ~ev.hand /\ ev.start \in {"PLAYING", "LEVEL_UP"}
  /\ Len(ev.rel) = 1 /\ ~game.isPinching /\ game.grabbedCharId = -1

\* C29: a tick reports the bomb gesture only if it began with grabbedCharId = -1
\* and no character GRABBED, and such a tick ends with isPinching false; a tick
\* that creates a bomb acquires no character, and it begins and ends with no
\* character held.
C29_BombOrGrab ==
  [][IsTick
     => /\ ev'.five => /\ game.grabbedCharId = -1
                       /\ GrabbedSet(game.characters) = {}
                       /\ ~game'.isPinching
        /\ ev'.thrown > 0 => /\ ev'.five
                             /\ ev'.grabs = 0
                             /\ game.grabbedCharId = -1 /\ game'.grabbedCharId = -1
                             /\ GrabbedSet(game'.characters) = {}]_vars

\* a later tick of a session has seen the bomb gesture and has thrown a bomb
C29_Witness ==
  /\ ev.op = "tick" /\ ev.five /\ ev.thrown = 1 /\ ev.grabs = 0
  /\ ~game.isPinching /\ game.grabbedCharId = -1
  /\ ticks > 1

\* where a supply drop is after the move of a tick dt frames long
DropAfter(drop, dt) == [drop EXCEPT !.y = @ + drop.vy * dt]

\* the pinch point p is less than 60 px from the drop
Within60(p, drop) ==
  /\ p # NoPoint
  /\ HypotLess(p[1] - drop.x, p[2] - drop.y, 60 * S)

DropIds(drops) == {drops[i].id : i \in 1..Len(drops)}

\* C30: in a tick of a running session, a supply drop that, after its move, is
\* less than 60 px from the pinch point while isPinching is true leaves the list
\* and bombsRemaining becomes min(bombsRemaining + 1, MAX_BOMBS); a drop that is
\* not picked leaves the list if its y has reached canvas height + 50 and stays,
\* moved, if not; a tick in which no drop is picked adds no ammunition.
C30_SupplyPickup ==
  [][IsTick /\ game.status \in {"PLAYING", "LEVEL_UP"}
     => LET dt == (now' - game.lastTime) \div FRAME
            picked(d) == game'.isPinching /\ Within60(ev'.point, DropAfter(d, dt))
        IN /\ \A i \in 1..Len(game.supplyDrops) :
                LET d == game.supplyDrops[i]
                IN IF picked(d)
                   THEN /\ d.id \notin DropIds(game'.supplyDrops)
                        /\ ev'.picked > 0
                        /\ game'.bombsRemaining
                             = IF game.bombsRemaining + 1 < MAX_BOMBS
                               THEN game.bombsRemaining + 1 ELSE MAX_BOMBS
                   ELSE IF DropAfter(d, dt).y >= (CanvasHeight + 50) * S
                        THEN d.id \notin DropIds(game'.supplyDrops)
                        ELSE \E j \in 1..Len(game'.supplyDrops) :
                               game'.supplyDrops[j] = DropAfter(d, dt)
           /\ ev'.picked = 0 => game'.bombsRemaining = game.bombsRemaining - ev'.thrown]_vars

\* a pinch next to the supply drop has collected it
C30_Witness ==
  /\ ev.op = "tick" /\ ev.picked = 1 /\ ev.point # NoPoint /\ game.isPinching
  /\ game.supplyDrops = <<>> /\ game.level >= 3

\* C31: a live character whose trick retreat has ended (hasTricked) has
\* vx = 1.5 x originalSpeed in every state in which it is RUNNING.
C31_LastingSpeedUp ==
  \A i \in 1..Len(game.characters) :
    LET char == game.characters[i]
    IN char.hasTricked /\ ~char.isDead /\ char.state = "RUNNING"
         => char.vx = (char.originalSpeed * 3) \div 2

\* the last handler produced a wave with spawnCharacters
WaveJustSpawned == ev.op \in {"startGame", "timer"} /\ game.status = "PLAYING"

\* C32: in the first tick after a wave was spawned no character is moved onto
\* x = -300 by the left-boundary clamp, and characters spawned at distinct x
\* are at distinct x after that tick.
C32_StaggerKept ==
  [][IsTick /\ WaveJustSpawned /\ Len(game'.characters) = Len(game.characters)
     => \A i \in 1..Len(game.characters) :
          /\ ~(game.characters[i].x < (-300) * S /\ game'.characters[i].x = (-300) * S)
          /\ \A j \in 1..Len(game.characters) :
               game.characters[i].x # game.characters[j].x
                 => game'.characters[i].x # game'.characters[j].x]_vars

\* C33: the time a tick integrates, time - lastTime, is the time since the
\* preceding invocation of the tick, whatever the status of that invocation
\* was (now holds the time of the preceding invocation once a tick has run).
C33_DtSincePrecedingTick ==
  [][IsTick /\ ticks > 0 /\ game.status # "GAME_OVER"
     => now' - game.lastTime = now' - now]_vars

InAir(char) == char.state \in {"FALLING", "JUMPING"}

OnGround(char) == char.state = "RUNNING" /\ char.y = groundLine /\ char.vy = 0

\* C34: while PLAYING ticks with dt > 0 go on, a character that is FALLING or
\* JUMPING and not held is eventually RUNNING on the ground line with vy = 0:
\* the two characters that begin in the air do land, and the character that
\* jumps near the right edge lands unless the session leaves PLAYING first; the
\* tick in which a character lands leaves it on the ground line with vy = 0 and
\* with vx = originalSpeed if it was moving backwards and its trick did not end
\* in that tick.
C34_Lands ==
  /\ [][IsTick /\ game'.status # "GAME_OVER"
          => \A i \in 1..Len(game.characters) :
               InAir(game.characters[i]) /\ game'.characters[i].state = "RUNNING"
                 => /\ OnGround(game'.characters[i])
                    /\ game'.characters[i].vx >= 0
                    /\ game.characters[i].vx < 0
                        /\ game'.characters[i].hasTricked = game.characters[i].hasTricked
                         => game'.characters[i].vx = game.characters[i].originalSpeed]_vars
  /\ \A id \in 3..4 :
       (game.grabbedCharId # id /\ InAir(CharOf(game.characters, id)))
         ~> OnGround(CharOf(game.characters, id))
  /\ (game.grabbedCharId # 2 /\ InAir(CharOf(game.characters, 2)))
       ~> (game.status # "PLAYING" \/ OnGround(CharOf(game.characters, 2)))

\* the character knocked up during its retreat has landed and runs forward at
\* its original speed, and the first character is in the air
C34_Witness ==
  /\ ev.op = "tick" /\ game.status = "PLAYING"
  /\ OnGround(game.characters[3])
  /\ game.characters[3].isTricking
  /\ game.characters[3].vx = game.characters[3].originalSpeed
  /\ InAir(game.characters[1])

\* C35: whenever grabbedCharId is not -1, exactly one character has that id and
\* its state is GRABBED, and every character in state GRABBED has the id
\* grabbedCharId.
C35_HeldIsGrabbed ==
  /\ game.grabbedCharId # -1
       => /\ Cardinality({i \in 1..Len(game.characters) :
                            game.characters[i].id = game.grabbedCharId}) = 1
          /\ CharOf(game.characters, game.grabbedCharId).state = "GRABBED"
  /\ \A i \in GrabbedSet(game.characters) : game.characters[i].id = game.grabbedCharId

\* C36: in every state between two handlers, status = PLAYING implies
\* levelScore < SCORE_TO_PASS_LEVEL.
C36_PlayingBelowPass ==
  game.status = "PLAYING" => game.levelScore < SCORE_TO_PASS_LEVEL

\* a tick of a PLAYING session has brought the score of the level to the mark,
\* and the session is no longer PLAYING
C36_Witness ==
  /\ ev.op = "tick" /\ ev.start = "PLAYING" /\ ev.pts > 0
  /\ game.levelScore >= SCORE_TO_PASS_LEVEL /\ game.status # "PLAYING"

CharIds(chars) == {chars[i].id : i \in 1..Len(chars)}

====
